---- MODULE Spec2Model ----
(***************************************************************************)
(* Verification model of the quoting / slippage engine of the repository   *)
(* (scripts/05_univ2_slippage_pre_usd.py, scripts/06_univ4_slippage_post_  *)
(* usd.py).                                                                *)
(*                                                                         *)
(* Numbers.  Python int is unbounded and is modelled by TLA+ integers.     *)
(* decimal.Decimal values are modelled as records                          *)
(*     [k |-> "num", n |-> numerator, d |-> denominator]   (d > 0, reduced)*)
(*     [k |-> "nan", ...]   Decimal("NaN")                                 *)
(*     [k |-> "none", ...]  Python None (Optional[Decimal])                *)
(* Arithmetic on "num" values is exact rational arithmetic: the context    *)
(* precision of the scripts (60 / 70 significant digits) is far above the  *)
(* size of the bounded inputs used here.  The NaN behaviour of Decimal is  *)
(* modelled as the library defines it under the default context: + - * /   *)
(* with a quiet NaN give NaN, while the ordering comparisons < <= > >=     *)
(* with a NaN signal decimal.InvalidOperation, which the default context   *)
(* traps (raises).                                                         *)
(***************************************************************************)
EXTENDS Integers, Sequences, FiniteSets, TLC

VARIABLES
    prog,     \* which program / function this run executes
    pc,       \* position of the run
    args,     \* arguments of the function under call (function-level runs)
    ret,      \* what the function returned or raised
    cfg,      \* run configuration read before the series loop (main runs)
    blocks,   \* main(): the sampled block list
    bi,       \* main(): index of the next block of `blocks` to process
    rows,     \* main(): the list `rows`
    chain,    \* chain data the run has read so far, per block
    calls,    \* remote quoteExactInputSingle calls issued so far
    error,    \* the exception that ended the run, or "none"
    loc,      \* main(): locals of the block being processed (V4 notional loop)
    written   \* the series written to the CSV file (<<>> until written)

vars == <<prog, pc, args, ret, cfg, blocks, bi, rows, chain, calls, error, loc, written>>

----------------------------------------------------------------------------
(* Bounds of the model *)

MaxAmountIn == 10
MaxReserve == 7
\* main(): how many of the USD notional tiers are walked
MaxNotionals == 2
\* main(): how far the chain head lies past the migration block at most (V4
\* window), and the largest PRE_LOOKBACK_BLOCKS (V2 window)
MaxAhead == 1
MaxLookback == 1
\* eth_usd_from_univ3 in scaled units: sqrtPriceX96 carries SqrtPriceFracBits
\* fractional bits instead of 96, and the USDC/WETH decimal adjustment is
\* 10^UsdcWethDecGap instead of 10^12
SqrtPriceFracBits == 1
UsdcWethDecGap == 3
\* quoteExactInputSingle: exactAmount is an unsigned integer of ExactAmountBits
\* bits instead of 128
ExactAmountBits == 1
\* getcontext().prec: results are rounded to DecimalPrec significant digits
\* instead of 60 (70 in the V2 script)
DecimalPrec == 4
\* The longest sampled window and the largest stride of the block sampler
MaxWindow == 5
MaxStride == 3
\* The chunked log scan: the last block of the scanned range, the largest
\* chunk length (2000 in the scripts) and the largest min_range (20 and 50)
MaxScanEnd == 6
MaxStep == 4
MaxMinRange == 2
\* The burns table: the largest number of rows and the largest amount1_WETH
MaxBurnRows == 2
MaxBurnAmount == 2
\* build_range_coverage: ticks lie in -MaxTick..MaxTick, tick_spacing in
\* 1..MaxTickSpacing
MaxTick == 3
MaxTickSpacing == 3

----------------------------------------------------------------------------
(* Decimal values *)

RECURSIVE GCD(_, _)
GCD(a, b) == IF b = 0 THEN a ELSE GCD(b, a % b)

Abs(x) == IF x < 0 THEN 0 - x ELSE x

RECURSIVE Pow10(_)
Pow10(e) == IF e <= 0 THEN 1 ELSE 10 * Pow10(e - 1)

RECURSIVE Pow2(_)
Pow2(e) == IF e <= 0 THEN 1 ELSE 2 * Pow2(e - 1)

\* Decimal(n) / Decimal(d), d # 0, as a reduced fraction with positive denominator
Rat(n, d) ==
    LET g == GCD(Abs(n), Abs(d))
        s == IF d < 0 THEN 0 - 1 ELSE 1
    IN  [k |-> "num", n |-> (s * n) \div g, d |-> (s * d) \div g]

Dec(n) == [k |-> "num", n |-> n, d |-> 1]
NaN == [k |-> "nan", n |-> 0, d |-> 1]
None == [k |-> "none", n |-> 0, d |-> 1]

IsNum(x) == x.k = "num"
\* Decimal.is_finite()
is_finite(x) == x.k = "num"

\* x * y, x / y, x - y, abs(x): a NaN operand gives NaN (quiet NaN, no signal)
DMul(x, y) == IF IsNum(x) /\ IsNum(y) THEN Rat(x.n * y.n, x.d * y.d) ELSE NaN
DDiv(x, y) == IF IsNum(x) /\ IsNum(y) /\ y.n # 0 THEN Rat(x.n * y.d, x.d * y.n) ELSE NaN
DSub(x, y) == IF IsNum(x) /\ IsNum(y) THEN Rat(x.n * y.d - y.n * x.d, x.d * y.d) ELSE NaN
DAbs(x) == IF IsNum(x) THEN [x EXCEPT !.n = Abs(x.n)] ELSE x

\* The exception `x <= 0` / `x > 0` raises, "none" when it evaluates
CmpExc(x) ==
    CASE x.k = "num" -> "none"
      [] x.k = "nan" -> "InvalidOperation"
      [] OTHER -> "TypeError"

\* x < y on numbers
DLt(x, y) == x.n * y.d < y.n * x.d

\* a / d rounded to an integer, ties to even (ROUND_HALF_EVEN, the context default)
RoundHalfEven(a, d) ==
    LET q == a \div d
        r == a % d
    IN  IF 2 * r > d \/ (2 * r = d /\ q % 2 = 1) THEN q + 1 ELSE q

\* the least e >= 0 with a / d < 10^(DecimalPrec + e)
RECURSIVE ExpUp(_, _, _)
ExpUp(a, d, e) ==
    IF a \div Pow10(DecimalPrec + e) >= d THEN ExpUp(a, d, e + 1) ELSE e

\* The context rounding of an arithmetic result to getcontext().prec
\* significant digits. It is applied where a raw amount meets the precision
\* (from_raw's division, to_raw's multiplication), to a result of magnitude
\* >= 10^(DecimalPrec - 1); the digits a smaller result carries beyond the
\* precision are kept.
Ctx(x) ==
    IF ~IsNum(x) \/ Abs(x.n) \div Pow10(DecimalPrec - 1) < x.d THEN x
    ELSE LET a == Abs(x.n)
             e == ExpUp(a, x.d, 0)
             c == RoundHalfEven(a, x.d * Pow10(e))
         IN  Dec((IF x.n < 0 THEN 0 - 1 ELSE 1) * c * Pow10(e))

----------------------------------------------------------------------------
(* 05_univ2_slippage_pre_usd.py: constants and pure functions *)

UNIV2_FEE_NUM == 997
UNIV2_FEE_DEN == 1000
UNIV2_FEE_RATE == Rat(3, 1000)

from_raw(x, decimals) == Ctx(Rat(x, Pow10(decimals)))

\* to_raw on a number (the comparison x <= 0 raises on NaN: see CmpExc);
\* to_integral_value(rounding="ROUND_FLOOR") is the floor of the product
to_raw(x, decimals) ==
    IF x.n <= 0 THEN 0
    ELSE LET q == Ctx(Rat(x.n * Pow10(decimals), x.d))
         IN  q.n \div q.d

\* to_raw of legacy/09_univ4_ranges_and_underlying.py: no `<= 0` guard
to_raw_legacy(amount, decimals) ==
    LET q == Ctx(Rat(amount.n * Pow10(decimals), amount.d))
    IN  q.n \div q.d

\* mutant: the quotient is rounded up instead of down
univ2_amount_out_ceil(amount_in_raw, reserve_in_raw, reserve_out_raw) ==
    IF amount_in_raw <= 0 \/ reserve_in_raw <= 0 \/ reserve_out_raw <= 0 THEN 0
    ELSE LET amount_in_with_fee == amount_in_raw * UNIV2_FEE_NUM
             numerator == amount_in_with_fee * reserve_out_raw
             denominator == reserve_in_raw * UNIV2_FEE_DEN + amount_in_with_fee
         IN  (numerator + denominator - 1) \div denominator

univ2_amount_out_mod(amount_in_raw, reserve_in_raw, reserve_out_raw) ==
    IF amount_in_raw <= 0 \/ reserve_in_raw <= 0 \/ reserve_out_raw <= 0 THEN 0
    ELSE (amount_in_raw * 997 * reserve_out_raw)
            % (reserve_in_raw * 1000 + amount_in_raw * 997)

\* mutant: no fee at all is taken from the input
univ2_amount_out_feeless(amount_in_raw, reserve_in_raw, reserve_out_raw) ==
    IF amount_in_raw <= 0 \/ reserve_in_raw <= 0 \/ reserve_out_raw <= 0 THEN 0
    ELSE (amount_in_raw * reserve_out_raw) \div (reserve_in_raw + amount_in_raw)

univ2_amount_out_nofee(amount_in_raw, reserve_in_raw, reserve_out_raw) ==
    IF amount_in_raw <= 0 \/ reserve_in_raw <= 0 \/ reserve_out_raw <= 0 THEN 0
    ELSE (amount_in_raw * 997 * reserve_out_raw)
            \div (reserve_in_raw * 1000 + amount_in_raw)

univ2_amount_out(amount_in_raw, reserve_in_raw, reserve_out_raw) ==
    IF amount_in_raw <= 0 \/ reserve_in_raw <= 0 \/ reserve_out_raw <= 0 THEN 0
    ELSE LET amount_in_with_fee == amount_in_raw * UNIV2_FEE_NUM
             numerator == amount_in_with_fee * reserve_out_raw
             denominator == reserve_in_raw * UNIV2_FEE_DEN + amount_in_with_fee
         IN  numerator \div denominator

NaNPair == [exc |-> "none", gross |-> NaN, excl |-> NaN]

\* mutant: the fee-excluded value clamped at zero
compute_slippage_pct_clamped(spot, exec_price, fee_rate) ==
    IF CmpExc(spot) # "none" THEN [exc |-> CmpExc(spot), gross |-> NaN, excl |-> NaN]
    ELSE IF spot.n <= 0 THEN NaNPair
    ELSE IF CmpExc(exec_price) # "none"
         THEN [exc |-> CmpExc(exec_price), gross |-> NaN, excl |-> NaN]
    ELSE IF exec_price.n <= 0 THEN NaNPair
    ELSE LET gross == DMul(DDiv(DAbs(DSub(spot, exec_price)), spot), Dec(100))
             excl == DSub(gross, DMul(fee_rate, Dec(100)))
         IN  [exc |-> "none", gross |-> gross,
              excl |-> IF excl.n < 0 THEN Dec(0) ELSE excl]

\* `spot <= 0 or exec_price <= 0` evaluates left to right and short-circuits
compute_slippage_pct(spot, exec_price, fee_rate) ==
    IF CmpExc(spot) # "none" THEN [exc |-> CmpExc(spot), gross |-> NaN, excl |-> NaN]
    ELSE IF spot.n <= 0 THEN NaNPair
    ELSE IF CmpExc(exec_price) # "none"
         THEN [exc |-> CmpExc(exec_price), gross |-> NaN, excl |-> NaN]
    ELSE IF exec_price.n <= 0 THEN NaNPair
    ELSE LET gross == DMul(DDiv(DAbs(DSub(spot, exec_price)), spot), Dec(100))
             excl == DSub(gross, DMul(fee_rate, Dec(100)))
         IN  [exc |-> "none", gross |-> gross, excl |-> excl]

----------------------------------------------------------------------------
(* 06_univ4_slippage_post_usd.py: pure functions and the remote quoter *)

\* class PoolKey
PoolKey(c0, c1, fee, tick_spacing, hooks) ==
    [currency0 |-> c0, currency1 |-> c1, fee |-> fee,
     tick_spacing |-> tick_spacing, hooks |-> hooks]

fee_to_rate(fee_uint24) == Rat(fee_uint24, 1000000)

\* mutant: comparisons with NaN are false instead of raising (float semantics)
slippage_excl_fees_pct_quiet(spot_out_per_in, avg_out_per_in, fee_rate) ==
    IF IsNum(spot_out_per_in) /\ spot_out_per_in.n <= 0 THEN NaNPair
    ELSE IF IsNum(avg_out_per_in) /\ avg_out_per_in.n <= 0 THEN NaNPair
    ELSE LET gross == DMul(DDiv(DAbs(DSub(spot_out_per_in, avg_out_per_in)),
                                spot_out_per_in), Dec(100))
             net_raw == DSub(gross, DMul(fee_rate, Dec(100)))
         IN  [exc |-> "none", gross |-> gross, excl |-> net_raw]

\* `spot_out_per_in <= 0 or avg_out_per_in <= 0`: each comparison raises
\* decimal.InvalidOperation on a NaN operand (TypeError on None)
slippage_excl_fees_pct(spot_out_per_in, avg_out_per_in, fee_rate) ==
    IF CmpExc(spot_out_per_in) # "none"
    THEN [exc |-> CmpExc(spot_out_per_in), gross |-> NaN, excl |-> NaN]
    ELSE IF spot_out_per_in.n <= 0 THEN NaNPair
    ELSE IF CmpExc(avg_out_per_in) # "none"
         THEN [exc |-> CmpExc(avg_out_per_in), gross |-> NaN, excl |-> NaN]
    ELSE IF avg_out_per_in.n <= 0 THEN NaNPair
    ELSE LET gross == DMul(DDiv(DAbs(DSub(spot_out_per_in, avg_out_per_in)),
                                spot_out_per_in), Dec(100))
             net_raw == DSub(gross, DMul(fee_rate, Dec(100)))
         IN  [exc |-> "none", gross |-> gross, excl |-> net_raw]

\* What the remote quoteExactInputSingle call does when it is issued: it reverts
\* (or times out), or it returns (amount_out, gas_estimate), both unsigned.
Remote(revert, out, gas) == [revert |-> revert, out |-> out, gas |-> gas]
RemoteOutcomes ==
    {Remote(TRUE, 0, 0)} \cup {Remote(FALSE, o, 1) : o \in {0, 1, 3}}

NoCall == <<>>

\* mutant: the direction is resolved before the amount is looked at
quote_exact_in_single_dirfirst(pool_key, token_in, amount_in_raw, remote) ==
    IF token_in # pool_key.currency0 /\ token_in # pool_key.currency1
    THEN [exc |-> "ValueError", out |-> 0, gas |-> 0, call |-> NoCall]
    ELSE IF amount_in_raw <= 0
    THEN [exc |-> "none", out |-> 0, gas |-> 0, call |-> NoCall]
    ELSE LET zero_for_one == (token_in = pool_key.currency0)
             call == <<[zero_for_one |-> zero_for_one, amount |-> amount_in_raw]>>
         IN  IF remote.revert
             THEN [exc |-> "RemoteError", out |-> 0, gas |-> 0, call |-> call]
             ELSE [exc |-> "none", out |-> remote.out, gas |-> remote.gas, call |-> call]

\* quote_exact_in_single; `remote` is the outcome of the remote call if issued.
\* Returns the pair (out, gas) or the exception raised, and the call issued.
quote_exact_in_single(pool_key, token_in, amount_in_raw, remote) ==
    IF amount_in_raw <= 0
    THEN [exc |-> "none", out |-> 0, gas |-> 0, call |-> NoCall]
    ELSE IF token_in # pool_key.currency0 /\ token_in # pool_key.currency1
    THEN [exc |-> "ValueError", out |-> 0, gas |-> 0, call |-> NoCall]
    ELSE LET zero_for_one == (token_in = pool_key.currency0)
             call == <<[zero_for_one |-> zero_for_one, amount |-> amount_in_raw]>>
         IN  IF remote.revert
             THEN [exc |-> "RemoteError", out |-> 0, gas |-> 0, call |-> call]
             ELSE [exc |-> "none", out |-> remote.out, gas |-> remote.gas, call |-> call]

\* 2**128 - 1, in the scaled width
MaxUint128 == Pow2(ExactAmountBits) - 1

Min(a, b) == IF a <= b THEN a ELSE b

\* quote_exact_in_single of 09_vault_timeseries.py (and of
\* 08_univ4_liquidity_distribution.py): the amount is clamped to 2**128 - 1
\* after the `<= 0` guard and before the direction is resolved
quote_exact_in_single_09(pool_key, token_in, amount_in_raw, remote) ==
    IF amount_in_raw <= 0
    THEN [exc |-> "none", out |-> 0, gas |-> 0, call |-> NoCall]
    ELSE LET clamped == Min(amount_in_raw, MaxUint128)
         IN  IF token_in # pool_key.currency0 /\ token_in # pool_key.currency1
             THEN [exc |-> "ValueError", out |-> 0, gas |-> 0, call |-> NoCall]
             ELSE LET zero_for_one == (token_in = pool_key.currency0)
                      call == <<[zero_for_one |-> zero_for_one, amount |-> clamped]>>
                  IN  IF remote.revert
                      THEN [exc |-> "RemoteError", out |-> 0, gas |-> 0, call |-> call]
                      ELSE [exc |-> "none", out |-> remote.out, gas |-> remote.gas,
                            call |-> call]

Max(a, b) == IF a >= b THEN a ELSE b

\* mutant: the input side of the rate is the requested tiny amount, not the
\* raw amount that was quoted
spot_out_per_in_from_microquote_req(pool_key, token_in, token_out_dec, token_in_dec, fee_rate, tiny_amount_in, remote) ==
    LET tiny_in_raw == Max(1, to_raw(tiny_amount_in, token_in_dec))
        q == quote_exact_in_single(pool_key, token_in, tiny_in_raw, remote)
        out_amt == from_raw(q.out, token_out_dec)
        in_amt == tiny_amount_in
        denom == DSub(Dec(1), fee_rate)
    IN  IF q.exc # "none" THEN [spot |-> None, call |-> q.call]
        ELSE IF out_amt.n <= 0 \/ in_amt.n <= 0 THEN [spot |-> None, call |-> q.call]
        ELSE IF denom.n <= 0 THEN [spot |-> None, call |-> q.call]
        ELSE [spot |-> DDiv(DDiv(out_amt, in_amt), denom), call |-> q.call]

\* spot_out_per_in_from_microquote: returns the spot estimate or None, and the
\* remote call it issued
spot_out_per_in_from_microquote(pool_key, token_in, token_out_dec, token_in_dec, fee_rate, tiny_amount_in, remote) ==
    LET tiny_in_raw == Max(1, to_raw(tiny_amount_in, token_in_dec))
        q == quote_exact_in_single(pool_key, token_in, tiny_in_raw, remote)
        out_amt == from_raw(q.out, token_out_dec)
        in_amt == from_raw(tiny_in_raw, token_in_dec)
        denom == DSub(Dec(1), fee_rate)
    IN  IF q.exc # "none" THEN [spot |-> None, call |-> q.call]
        ELSE IF out_amt.n <= 0 \/ in_amt.n <= 0 THEN [spot |-> None, call |-> q.call]
        ELSE IF denom.n <= 0 THEN [spot |-> None, call |-> q.call]
        ELSE [spot |-> DDiv(DDiv(out_amt, in_amt), denom), call |-> q.call]

\* 05c_univ2_slippage_pre_usd.py: UNIV2_FEE = 0.003
UNIV2_FEE == Rat(3, 1000)

\* mutant: the whole input amount enters the pool (no fee is taken from it)
cpmm_amount_out_with_fee_untaken(amount_in, reserve_in, reserve_out) ==
    IF amount_in.n <= 0 THEN Dec(0)
    ELSE IF reserve_in.n <= 0 \/ reserve_out.n <= 0 THEN Dec(0)
    ELSE LET k == DMul(reserve_in, reserve_out)
             new_reserve_in == DSub(reserve_in, DSub(Dec(0), amount_in))
             new_reserve_out == DDiv(k, new_reserve_in)
             out == DSub(reserve_out, new_reserve_out)
         IN  IF out.n < 0 THEN Dec(0) ELSE out

\* cpmm_amount_out_with_fee of 05c_univ2_slippage_pre_usd.py with the default
\* fee, evaluated over the rationals (the binary rounding of the float
\* operations is not modelled)
cpmm_amount_out_with_fee(amount_in, reserve_in, reserve_out) ==
    IF amount_in.n <= 0 THEN Dec(0)
    ELSE IF reserve_in.n <= 0 \/ reserve_out.n <= 0 THEN Dec(0)
    ELSE LET amount_in_eff == DMul(amount_in, DSub(Dec(1), UNIV2_FEE))
             k == DMul(reserve_in, reserve_out)
             new_reserve_in == DSub(reserve_in, DSub(Dec(0), amount_in_eff))
             new_reserve_out == DDiv(k, new_reserve_in)
             out == DSub(reserve_out, new_reserve_out)
         IN  IF out.n < 0 THEN Dec(0) ELSE out

\* 06c_univ4_slippage_post_usd.py, main(): one direction of one notional.
\* price_in_usd is the USD price of the input asset, spot_usd the USD price of
\* the output asset; the record's prices are USD per output unit.
V4cDirection(pool_key, usd, token_in, in_dec, out_dec, price_in_usd, spot_usd, unit, rate, remote) ==
    LET usdN == Dec(usd)
        amount_in == DDiv(usdN, price_in_usd)
        amount_in_raw == to_raw(amount_in, in_dec)
        q == quote_exact_in_single(pool_key, token_in, amount_in_raw, remote)
        out_raw == IF q.exc # "none" THEN 0 ELSE q.out
        out == from_raw(out_raw, out_dec)
        avg_exec_usd == IF out.n > 0 THEN DDiv(usdN, out) ELSE NaN
        slip == slippage_excl_fees_pct(spot_usd, avg_exec_usd, rate)
    IN  [exc |-> slip.exc, call |-> q.call,
         row |-> [usd_notional_in |-> usd,
                  amount_in |-> amount_in,
                  amount_out |-> IF is_finite(out) THEN out ELSE NaN,
                  spot_price |-> spot_usd, spot_price_unit |-> unit,
                  avg_exec_price |-> IF is_finite(avg_exec_usd) THEN avg_exec_usd
                                     ELSE NaN,
                  avg_exec_price_unit |-> unit,
                  slippage_pct |-> IF is_finite(slip.excl) THEN slip.excl ELSE NaN]]

----------------------------------------------------------------------------
(* Function-level runs: one call of one function on bounded arguments *)

IXS == "IXS"
ETH == "ETH"
Tokens == {IXS, ETH, "OTHER"}
FnPoolKey == PoolKey(ETH, IXS, 3000, 60, "hooks")

\* Decimal arguments tried for prices
PriceArgs == {NaN, Dec(0 - 1), Dec(0), Rat(1, 2), Dec(1), Dec(2), Dec(3)}
FeeArgs == {Dec(0), Rat(3, 1000), Rat(1, 100)}

ArgsUniv2 ==
    [fn : {"univ2_amount_out"}, amount_in_raw : (0 - 1)..MaxAmountIn,
     reserve_in_raw : (0 - 1)..MaxReserve, reserve_out_raw : (0 - 1)..MaxReserve]
ArgsSlip ==
    [fn : {"compute_slippage_pct", "slippage_excl_fees_pct"},
     spot : PriceArgs, avg : PriceArgs, fee_rate : FeeArgs]
\* rev: the script whose quote_exact_in_single is called ("06" stands for
\* 06_univ4_slippage_post_usd.py and the identical 06c, "09" for
\* 09_vault_timeseries.py)
ArgsQuote ==
    [fn : {"quote_exact_in_single"}, rev : {"06", "09"}, token_in : Tokens,
     amount_in_raw : (0 - 1)..(MaxUint128 + 1), remote : RemoteOutcomes]
ArgsMicro ==
    [fn : {"spot_out_per_in_from_microquote"}, token_in : Tokens,
     token_out_dec : 0..1, token_in_dec : 0..1,
     fee_uint24 : {0, 3000, 1000000, 2000000},
     tiny_amount_in : {Rat(1, 10), Rat(1, 4), Rat(3, 2)},
     remote : RemoteOutcomes]

\* rev: "06" stands for the to_raw of the V2, V4 and vault scripts (the same
\* code), "legacy" for legacy/09_univ4_ranges_and_underlying.py
ArgsToRaw ==
    [fn : {"to_raw"}, rev : {"06", "legacy"},
     x : {Dec(0 - 2), Rat(0 - 3, 2), Rat(0 - 1, 2), Dec(0), Rat(1, 4), Rat(1, 2),
          Rat(3, 2), Rat(7, 3), Dec(12), Dec(Pow10(DecimalPrec) - 1),
          Dec(Pow10(DecimalPrec) + 5), Dec(Pow10(DecimalPrec) + 6)},
     decimals : 0..2]
ArgsFromRaw ==
    [fn : {"from_raw"},
     raw : 0..12 \cup ((Pow10(DecimalPrec) - 3)..(Pow10(DecimalPrec) + 16)),
     decimals : 0..2]

\* mutant: the stop of the range is included
RECURSIVE PyRange_inclusive(_, _, _)
PyRange_inclusive(start, stop, step) ==
    IF start > stop THEN <<>>
    ELSE <<start>> \o PyRange_inclusive(start + step, stop, step)

\* list(range(start, stop, step)) for step >= 1
RECURSIVE PyRange(_, _, _)
PyRange(start, stop, step) ==
    IF start >= stop THEN <<>> ELSE <<start>> \o PyRange(start + step, stop, step)

\* mutant: the end of the window is appended whatever the last sample is
sample_blocks_always(venue, start_block, end_block, stride) ==
    LET blocks0 == PyRange(start_block, end_block + 1, stride)
    IN  IF blocks0 = <<>>
        THEN [exc |-> IF venue = "V2" THEN "RuntimeError" ELSE "IndexError",
              blocks |-> <<>>]
        ELSE [exc |-> "none", blocks |-> Append(blocks0, end_block)]

\* `blocks = list(range(start, end + 1, stride))`, then the end of the window
\* is appended when the last sample is not the end.  On an empty list the V2
\* script raises RuntimeError and the V4 script's blocks[-1] raises IndexError.
sample_blocks(venue, start_block, end_block, stride) ==
    LET blocks0 == PyRange(start_block, end_block + 1, stride)
    IN  IF blocks0 = <<>>
        THEN [exc |-> IF venue = "V2" THEN "RuntimeError" ELSE "IndexError",
              blocks |-> <<>>]
        ELSE [exc |-> "none",
              blocks |-> IF blocks0[Len(blocks0)] # end_block
                         THEN Append(blocks0, end_block) ELSE blocks0]

ArgsSample ==
    [fn : {"sample_blocks"}, venue : {"V2", "V4"}, start_block : 0..2,
     end_block : 0..(2 + MaxWindow), stride : 1..MaxStride]

\* 04_write_migration_block_final.py, 04b_write_migration_block_final.py:
\* the inputs of the final-block rule.
\* The burns file is missing, has no columns to parse (pd.errors.EmptyDataError),
\* fails to parse otherwise, holds a header only, or holds rows.
BurnRow == [block_number : 1..2, amount1_WETH : 0..MaxBurnAmount]

RECURSIVE SeqsUpTo(_, _)
SeqsUpTo(S, n) ==
    IF n = 0 THEN {<<>>}
    ELSE SeqsUpTo(S, n - 1)
            \cup {Append(q, x) : q \in {y \in SeqsUpTo(S, n - 1) : Len(y) = n - 1}, x \in S}

BurnsFiles ==
    {[status |-> st, columns_ok |-> FALSE, rows |-> <<>>] :
        st \in {"missing", "no_columns", "parse_error"}}
    \cup [status : {"empty"}, columns_ok : BOOLEAN, rows : {<<>>}]
    \cup [status : {"ok"}, columns_ok : BOOLEAN, rows : SeqsUpTo(BurnRow, MaxBurnRows) \ {<<>>}]

\* null / absent in a JSON input, None in `chosen`
NoBlock == 0 - 1

\* migration_candidate.json: missing, an empty object, or an object whose
\* candidate_migration_block is absent, null or a block
CandFiles ==
    {[k |-> "missing", has_block |-> FALSE, block |-> NoBlock],
     [k |-> "empty", has_block |-> FALSE, block |-> NoBlock],
     [k |-> "object", has_block |-> FALSE, block |-> NoBlock],
     [k |-> "object", has_block |-> TRUE, block |-> NoBlock],
     [k |-> "object", has_block |-> TRUE, block |-> 4]}

\* migration_regime_change.json: missing, without best_change_point, or with
\* a best_change_point whose migration_block_estimate is null or a block
RegimeFiles ==
    {[k |-> "missing", bcp |-> FALSE, block |-> NoBlock],
     [k |-> "object", bcp |-> FALSE, block |-> NoBlock],
     [k |-> "object", bcp |-> TRUE, block |-> NoBlock],
     [k |-> "object", bcp |-> TRUE, block |-> 3]}

\* `burns_df.sort_values("amount1_WETH", ascending=False).iloc[0]`: a row with
\* the largest amount; the default sort is not stable, so any of the rows
\* that share the largest amount can come first
TopBurns(burn_rows) ==
    {i \in 1..Len(burn_rows) :
        \A j \in 1..Len(burn_rows) : burn_rows[j].amount1_WETH <= burn_rows[i].amount1_WETH}

NotChosen == [exc |-> "none", selected_by |-> "None", migration_block_final |-> NoBlock]

Raised(exc) == [exc |-> exc, selected_by |-> "None", migration_block_final |-> NoBlock]

\* 04_write_migration_block_final.py main(); top is the index of the row that
\* sorts first
write_final_04(burns, cand, top) ==
    IF cand.k # "object" THEN Raised("RuntimeError")   \* `if not cand: raise`
    ELSE IF burns.status = "no_columns" THEN Raised("EmptyDataError")
    ELSE IF burns.status = "parse_error" THEN Raised("ParserError")
    ELSE LET chosen ==
                 IF burns.status = "ok" /\ burns.columns_ok
                 THEN [exc |-> "none", selected_by |-> "largest_burn_confirm_window",
                       migration_block_final |-> burns.rows[top].block_number]
                 ELSE NotChosen
         IN  IF chosen.migration_block_final # NoBlock THEN chosen
             ELSE IF ~cand.has_block THEN Raised("KeyError")
             ELSE IF cand.block = NoBlock THEN Raised("TypeError")
             ELSE [exc |-> "none", selected_by |-> "largest_sync_drop_candidate",
                   migration_block_final |-> cand.block]

\* safe_read_csv(): (df is not NoBlock, status)
safe_read_csv(burns) ==
    IF burns.status = "missing" THEN [df |-> FALSE, status |-> "missing"]
    ELSE IF burns.status = "no_columns" THEN [df |-> TRUE, status |-> "empty"]
    ELSE IF burns.status = "parse_error" THEN [df |-> FALSE, status |-> "error"]
    ELSE IF burns.status = "empty" THEN [df |-> TRUE, status |-> "empty"]
    ELSE [df |-> TRUE, status |-> "ok"]

\* 04b_write_migration_block_final.py main()
write_final_04b(burns, regime, cand, top) ==
    LET rd == safe_read_csv(burns)
        cand_block == IF cand.k = "object" /\ cand.has_block THEN cand.block ELSE NoBlock
        regime_block == IF regime.k = "object" /\ regime.bcp THEN regime.block ELSE NoBlock
        chosen1 == IF rd.df /\ rd.status = "ok" /\ Len(burns.rows) > 0 /\ burns.columns_ok
                   THEN [exc |-> "none", selected_by |-> "largest_burn",
                         migration_block_final |-> burns.rows[top].block_number]
                   ELSE NotChosen
        chosen2 == IF chosen1.migration_block_final = NoBlock /\ regime_block # NoBlock
                   THEN [exc |-> "none", selected_by |-> "regime_change",
                         migration_block_final |-> regime_block]
                   ELSE chosen1
        chosen3 == IF chosen2.migration_block_final = NoBlock /\ cand_block # NoBlock
                   THEN [exc |-> "none", selected_by |-> "largest_sync_drop",
                         migration_block_final |-> cand_block]
                   ELSE chosen2
    IN  IF chosen3.migration_block_final = NoBlock THEN Raised("RuntimeError") ELSE chosen3

ArgsWriteFinal ==
    [fn : {"write_final"}, rev : {"04"}, burns : BurnsFiles, cand : CandFiles,
     regime : {[k |-> "missing", bcp |-> FALSE, block |-> NoBlock]}]
    \cup [fn : {"write_final"}, rev : {"04b"}, burns : BurnsFiles, cand : CandFiles,
          regime : RegimeFiles]

\* 08_univ4_liquidity_distribution.py: build_range_coverage()

\* mutant: the division truncates toward zero
align_down_trunc(t, tick_spacing) ==
    (IF t < 0 THEN 0 - ((0 - t) \div tick_spacing) ELSE t \div tick_spacing) * tick_spacing

\* `(t // tick_spacing) * tick_spacing`: // rounds toward minus infinity
align_down(t, tick_spacing) == (t \div tick_spacing) * tick_spacing

\* `((t + tick_spacing - 1) // tick_spacing) * tick_spacing`
align_up(t, tick_spacing) == ((t + tick_spacing - 1) \div tick_spacing) * tick_spacing

RECURSIVE SeqMin(_)
SeqMin(q) == IF Len(q) = 1 THEN q[1] ELSE Min(q[1], SeqMin(Tail(q)))

RECURSIVE SeqMax(_)
SeqMax(q) == IF Len(q) = 1 THEN q[1] ELSE Max(q[1], SeqMax(Tail(q)))

\* a[i:j] of an array of length n: the 0-based positions the slice selects
PySlice(i, j, n) ==
    LET lo == IF i < 0 THEN Max(0, i + n) ELSE Min(i, n)
        hi == IF j < 0 THEN Max(0, j + n) ELSE Min(j, n)
    IN  lo..(hi - 1)

\* The loop over the ranges from row k on: `coverage[i0 : i1 + 1] += 1`
RECURSIVE CoverageLoop(_, _, _, _, _)
CoverageLoop(coverage, df_ranges, k, start, tick_spacing) ==
    IF k > Len(df_ranges) THEN coverage
    ELSE LET tl == df_ranges[k].tickLower
             tu == df_ranges[k].tickUpper
             i0 == (align_up(tl, tick_spacing) - start) \div tick_spacing
             i1 == (align_down(tu - 1, tick_spacing) - start) \div tick_spacing
             sl == PySlice(i0, i1 + 1, Len(coverage))
             next == IF tu <= tl \/ i1 < i0 THEN coverage
                     ELSE [i \in 1..Len(coverage) |->
                              IF (i - 1) \in sl THEN coverage[i] + 1 ELSE coverage[i]]
         IN  CoverageLoop(next, df_ranges, k + 1, start, tick_spacing)

build_range_coverage(df_ranges, tick_spacing) ==
    IF df_ranges = <<>> THEN <<>>
    ELSE LET tl_min == SeqMin([k \in 1..Len(df_ranges) |-> df_ranges[k].tickLower])
             tu_max == SeqMax([k \in 1..Len(df_ranges) |-> df_ranges[k].tickUpper])
             start == align_down(tl_min, tick_spacing)
             end == align_up(tu_max, tick_spacing)
             bins == PyRange(start, end + 1, tick_spacing)
             coverage == CoverageLoop([i \in 1..Len(bins) |-> 0], df_ranges, 1, start,
                                      tick_spacing)
         IN  [i \in 1..Len(bins) |-> [tick_bin |-> bins[i], coverage_count |-> coverage[i]]]

TickRanges == [tickLower : (0 - MaxTick)..MaxTick, tickUpper : (0 - MaxTick)..MaxTick]

\* no range, one range or two ranges
ArgsCoverage ==
    [fn : {"build_range_coverage"}, tick_spacing : 1..MaxTickSpacing,
     df_ranges : {<<>>} \cup {<<r>> : r \in TickRanges}
                    \cup {<<r1, r2>> : r1 \in TickRanges, r2 \in TickRanges}]

ArgsCpmm ==
    [fn : {"cpmm_amount_out_with_fee"}, amount_in : (0 - 1)..MaxAmountIn,
     reserve_in : (0 - 1)..MaxReserve, reserve_out : (0 - 1)..MaxReserve]

\* one direction of the notional loop of 06c_univ4_slippage_post_usd.py
ArgsV4cDirection ==
    [fn : {"06c_direction"}, usd : {1000, 5000}, token_in : {IXS, ETH},
     price_in_usd : {Dec(250), Dec(1000)}, spot_usd : {Dec(250), Dec(1000)},
     decs : {<<0, 1>>, <<1, 0>>}, remote : RemoteOutcomes]

NoRet == [exc |-> "none"]
NoCfg == [venue |-> "none"]
NoLoc == [ni |-> 0]

MainIdle ==
    /\ cfg = NoCfg /\ blocks = <<>> /\ bi = 0 /\ rows = <<>>
    /\ chain = <<>> /\ error = "none" /\ loc = NoLoc /\ written = <<>>

InitFn ==
    /\ prog = "fn" /\ pc = "call"
    /\ args \in ArgsUniv2 \cup ArgsSlip \cup ArgsQuote \cup ArgsMicro
                \cup ArgsToRaw \cup ArgsFromRaw \cup ArgsV4cDirection
                \cup ArgsCpmm \cup ArgsSample \cup ArgsWriteFinal
                \cup ArgsCoverage
    /\ ret = NoRet /\ calls = <<>>
    /\ MainIdle

FnDone(r, c) ==
    /\ ret' = r /\ calls' = calls \o c /\ pc' = "ret"
    /\ UNCHANGED <<prog, args, cfg, blocks, bi, rows, chain, error, loc, written>>

CallBuildRangeCoverage ==
    /\ prog = "fn" /\ pc = "call" /\ args.fn = "build_range_coverage"
    /\ FnDone([exc |-> "none",
               out |-> build_range_coverage(args.df_ranges, args.tick_spacing)], <<>>)

CallWriteFinal ==
    /\ prog = "fn" /\ pc = "call" /\ args.fn = "write_final"
    /\ \E top \in IF args.burns.rows = <<>> THEN {0} ELSE TopBurns(args.burns.rows) :
          FnDone(IF args.rev = "04"
                 THEN write_final_04(args.burns, args.cand, top)
                 ELSE write_final_04b(args.burns, args.regime, args.cand, top), <<>>)

CallSampleBlocks ==
    /\ prog = "fn" /\ pc = "call" /\ args.fn = "sample_blocks"
    /\ FnDone(sample_blocks(args.venue, args.start_block, args.end_block, args.stride),
              <<>>)

CallUniv2AmountOut ==
    /\ prog = "fn" /\ pc = "call" /\ args.fn = "univ2_amount_out"
    /\ FnDone([exc |-> "none",
               out |-> univ2_amount_out(args.amount_in_raw, args.reserve_in_raw,
                                        args.reserve_out_raw)], <<>>)

CallComputeSlippagePct ==
    /\ prog = "fn" /\ pc = "call" /\ args.fn = "compute_slippage_pct"
    /\ FnDone(compute_slippage_pct(args.spot, args.avg, args.fee_rate), <<>>)

CallSlippageExclFeesPct ==
    /\ prog = "fn" /\ pc = "call" /\ args.fn = "slippage_excl_fees_pct"
    /\ FnDone(slippage_excl_fees_pct(args.spot, args.avg, args.fee_rate), <<>>)

CallQuoteExactInSingle ==
    /\ prog = "fn" /\ pc = "call" /\ args.fn = "quote_exact_in_single"
    /\ LET q == IF args.rev = "09"
                THEN quote_exact_in_single_09(FnPoolKey, args.token_in,
                                              args.amount_in_raw, args.remote)
                ELSE quote_exact_in_single(FnPoolKey, args.token_in,
                                           args.amount_in_raw, args.remote)
       IN  FnDone([exc |-> q.exc, out |-> q.out, gas |-> q.gas], q.call)

CallSpotMicroquote ==
    /\ prog = "fn" /\ pc = "call" /\ args.fn = "spot_out_per_in_from_microquote"
    /\ LET s == spot_out_per_in_from_microquote(
                    FnPoolKey, args.token_in, args.token_out_dec, args.token_in_dec,
                    fee_to_rate(args.fee_uint24), args.tiny_amount_in, args.remote)
       IN  FnDone([exc |-> "none", spot |-> s.spot], s.call)

CallToRaw ==
    /\ prog = "fn" /\ pc = "call" /\ args.fn = "to_raw"
    /\ FnDone([exc |-> "none",
               out |-> IF args.rev = "legacy" THEN to_raw_legacy(args.x, args.decimals)
                       ELSE to_raw(args.x, args.decimals)], <<>>)

CallFromRaw ==
    /\ prog = "fn" /\ pc = "call" /\ args.fn = "from_raw"
    /\ FnDone([exc |-> "none", out |-> from_raw(args.raw, args.decimals)], <<>>)

CallV4cDirection ==
    /\ prog = "fn" /\ pc = "call" /\ args.fn = "06c_direction"
    /\ LET d == V4cDirection(FnPoolKey, args.usd, args.token_in, args.decs[1],
                             args.decs[2], args.price_in_usd, args.spot_usd,
                             IF args.token_in = IXS THEN "USD_per_ETH"
                             ELSE "USD_per_IXS",
                             fee_to_rate(FnPoolKey.fee), args.remote)
       IN  FnDone([exc |-> d.exc, row |-> d.row], d.call)

CallCpmmAmountOut ==
    /\ prog = "fn" /\ pc = "call" /\ args.fn = "cpmm_amount_out_with_fee"
    /\ FnDone([exc |-> "none",
               out |-> cpmm_amount_out_with_fee(Dec(args.amount_in), Dec(args.reserve_in),
                                                Dec(args.reserve_out))], <<>>)

NextFn ==
    \/ CallBuildRangeCoverage
    \/ CallWriteFinal
    \/ CallSampleBlocks
    \/ CallCpmmAmountOut
    \/ CallV4cDirection
    \/ CallToRaw
    \/ CallFromRaw
    \/ CallUniv2AmountOut
    \/ CallComputeSlippagePct
    \/ CallSlippageExclFeesPct
    \/ CallQuoteExactInSingle
    \/ CallSpotMicroquote

SpecFn == InitFn /\ [][NextFn]_vars

Returned(fn) == prog = "fn" /\ pc = "ret" /\ args.fn = fn

----------------------------------------------------------------------------
(* Claims about the pure functions, checked under SpecFn *)

PositiveQuoteArgs ==
    /\ Returned("univ2_amount_out")
    /\ args.amount_in_raw > 0 /\ args.reserve_in_raw > 0 /\ args.reserve_out_raw > 0

\* C1: for positive amount and reserves univ2_amount_out returns exactly
\* floor(a*997*r_out / (r_in*1000 + a*997)): the result q is the one integer
\* with q*den <= num < (q+1)*den.
C1_QuoteIsFloor ==
    PositiveQuoteArgs =>
        LET num == args.amount_in_raw * 997 * args.reserve_out_raw
            den == args.reserve_in_raw * 1000 + args.amount_in_raw * 997
        IN  /\ ret.exc = "none"
            /\ ret.out * den <= num
            /\ num < (ret.out + 1) * den

C1_Witness ==
    /\ PositiveQuoteArgs
    /\ ret.out > 0
    /\ (args.amount_in_raw * 997 * args.reserve_out_raw)
          % (args.reserve_in_raw * 1000 + args.amount_in_raw * 997) # 0

\* C2: a quote with a non-positive input is zero and does not raise:
\* univ2_amount_out returns 0 when the amount or a reserve is <= 0;
\* quote_exact_in_single returns (0, 0) for amount_in_raw <= 0 without a remote
\* call, whatever token_in is; every returned amount_out is >= 0.
C2_NonPositiveInputQuotesZero ==
    /\ Returned("univ2_amount_out") =>
          /\ ret.exc = "none" /\ ret.out >= 0
          /\ (args.amount_in_raw <= 0 \/ args.reserve_in_raw <= 0
                \/ args.reserve_out_raw <= 0) => ret.out = 0
    /\ Returned("quote_exact_in_single") =>
          /\ args.amount_in_raw <= 0 =>
                ret.exc = "none" /\ ret.out = 0 /\ ret.gas = 0 /\ calls = <<>>
          /\ ret.exc = "none" => ret.out >= 0

C2_Witness ==
    /\ Returned("quote_exact_in_single")
    /\ args.amount_in_raw <= 0 /\ args.token_in = "OTHER"
    /\ ret.exc = "none" /\ ret.out = 0 /\ calls = <<>>

\* C3 as stated: the quote is strictly increasing in amount_in_raw.
C3_StrictlyIncreasing ==
    PositiveQuoteArgs =>
        \A b \in (args.amount_in_raw + 1)..(MaxAmountIn + 1) :
            univ2_amount_out(b, args.reserve_in_raw, args.reserve_out_raw) > ret.out

\* C3 (amended): for fixed positive reserves the quote is non-decreasing in
\* amount_in_raw: for all 0 < a < b, quote(a) <= quote(b).
C3_NonDecreasing ==
    PositiveQuoteArgs =>
        \A b \in (args.amount_in_raw + 1)..(MaxAmountIn + 1) :
            univ2_amount_out(b, args.reserve_in_raw, args.reserve_out_raw) >= ret.out

C3_Witness ==
    /\ PositiveQuoteArgs
    /\ \E b \in (args.amount_in_raw + 1)..(MaxAmountIn + 1) :
          univ2_amount_out(b, args.reserve_in_raw, args.reserve_out_raw) = ret.out
    /\ \E b \in (args.amount_in_raw + 1)..(MaxAmountIn + 1) :
          univ2_amount_out(b, args.reserve_in_raw, args.reserve_out_raw) > ret.out

PositivePrices ==
    /\ prog = "fn" /\ pc = "ret"
    /\ args.fn \in {"compute_slippage_pct", "slippage_excl_fees_pct"}
    /\ IsNum(args.spot) /\ args.spot.n > 0
    /\ IsNum(args.avg) /\ args.avg.n > 0

\* C4: for spot > 0 and avg_exec > 0 the evaluator returns
\* gross = |spot - avg| / spot * 100 and excl = gross - fee_rate*100, signed
\* (not clamped at zero); for spot = avg: gross = 0 and excl = -fee_rate*100.
\* The equalities are stated on the fractions, cross-multiplied.
C4_SlippageFormula ==
    PositivePrices =>
        LET s == args.spot
            a == args.avg
            f == args.fee_rate
            g == ret.gross
            e == ret.excl
        IN  /\ ret.exc = "none" /\ IsNum(g) /\ IsNum(e)
            /\ g.n * (s.n * a.d) = g.d * 100 * Abs(s.n * a.d - a.n * s.d)
            /\ e.n * g.d * f.d = e.d * (g.n * f.d - 100 * f.n * g.d)
            /\ (s = a) => (g.n = 0 /\ e.n * f.d = (0 - 100) * f.n * e.d)

C4_Witness ==
    /\ PositivePrices
    /\ args.fn = "compute_slippage_pct"
    /\ args.spot = args.avg /\ args.fee_rate = Rat(3, 1000)
    /\ ret.gross = Dec(0) /\ ret.excl = Rat(0 - 3, 10)

\* C5 as stated: a non-positive or unavailable (NaN) spot or average execution
\* price makes the evaluator return (NaN, NaN) without raising.
C5_UnavailableGivesNaNPair ==
    ( /\ Returned("slippage_excl_fees_pct")
      /\ (~IsNum(args.spot) \/ args.spot.n <= 0
            \/ ~IsNum(args.avg) \/ args.avg.n <= 0) )
    => ret = NaNPair

\* C10: the micro-quote is issued with max(1, floor(tiny * 10^decimals)) raw
\* units; for micro_out > 0 and 0 <= fee_rate < 1 the estimator returns
\* (micro_out / micro_in) / (1 - fee_rate) in human units, micro_in being the
\* human value of the raw amount quoted; for fee_rate >= 1 it returns None.
C10_MicroquoteSpot ==
    Returned("spot_out_per_in_from_microquote") =>
        LET t == args.tiny_amount_in
            p == Pow10(args.token_in_dec)
            inPool == args.token_in \in {FnPoolKey.currency0, FnPoolKey.currency1}
        IN  /\ ret.exc = "none"
            /\ inPool =>
                  /\ Len(calls) = 1
                  /\ calls[1].amount >= 1
                  /\ (calls[1].amount + 1) * t.d > t.n * p
                  /\ calls[1].amount > 1 => calls[1].amount * t.d <= t.n * p
            /\ (inPool /\ ~args.remote.revert /\ args.remote.out > 0
                  /\ args.fee_uint24 < 1000000) =>
                  ret.spot = Rat(args.remote.out * p * 1000000,
                                 Pow10(args.token_out_dec) * calls[1].amount
                                    * (1000000 - args.fee_uint24))
            /\ args.fee_uint24 >= 1000000 => ret.spot = None

C10_Witness ==
    /\ Returned("spot_out_per_in_from_microquote")
    /\ args.token_in = IXS /\ args.remote.out = 3 /\ args.fee_uint24 = 3000
    /\ args.tiny_amount_in = Rat(1, 4) /\ args.token_in_dec = 1
    /\ args.token_out_dec = 0
    /\ Len(calls) = 1 /\ calls[1].amount = 2
    /\ ret.spot = Rat(15 * 1000, 997)

\* token_in is one of the two currencies of the pool key of the call
TokenInPool == args.token_in \in {FnPoolKey.currency0, FnPoolKey.currency1}

\* C11 as stated: quote_exact_in_single passes zero_for_one = TRUE exactly for
\* token_in = currency0 and FALSE exactly for token_in = currency1, and raises
\* for every token_in outside the pool, whatever amount_in_raw is.
C11_DirectionOrError ==
    (Returned("quote_exact_in_single") /\ args.rev = "06") =>
        /\ ~TokenInPool => ret.exc = "ValueError"
        /\ \A k \in 1..Len(calls) :
              calls[k].zero_for_one = (args.token_in = FnPoolKey.currency0)

\* C12 as stated: the ValueError quote_exact_in_single raises for a token
\* outside the pool is not converted by a caller: the micro-quote spot
\* estimator lets it propagate instead of returning a value.
C12_IdentityErrorIsFatal ==
    (Returned("spot_out_per_in_from_microquote") /\ ~TokenInPool) =>
        ret.exc = "ValueError"

\* C13 as stated: every remote quoteExactInputSingle call carries an amount in
\* 1 .. 2^128 - 1, in every revision of quote_exact_in_single.
C13_QuoteAmountClamped ==
    Returned("quote_exact_in_single") =>
        \A k \in 1..Len(calls) :
            calls[k].amount >= 1 /\ calls[k].amount <= MaxUint128

\* C14 as stated: to_raw never rounds up: for x >= 0 the result r satisfies
\* r <= x * 10^d < r + 1, and for x <= 0 the result is 0, in every revision.
C14_ToRawNeverRoundsUp ==
    Returned("to_raw") =>
        LET scaled == args.x.n * Pow10(args.decimals)
        IN  /\ args.x.n >= 0 =>
                  /\ ret.out * args.x.d <= scaled
                  /\ scaled < (ret.out + 1) * args.x.d
            /\ args.x.n <= 0 => ret.out = 0

\* C15 as stated: a raw -> human -> raw round trip never yields more than the
\* raw amount it started from: to_raw(from_raw(raw, d), d) <= raw for raw >= 0.
C15_RoundTripNeverGains ==
    Returned("from_raw") => to_raw(ret.out, args.decimals) <= args.raw

----------------------------------------------------------------------------
(* main() of the two series builders: shared pieces *)

WETH == "WETH"
USDC == "USDC"

\* notionals / usd_sizes, the first MaxNotionals tiers
AllNotionals == <<1000, 5000, 10000, 50000>>
notionals == SubSeq(AllNotionals, 1, IF MaxNotionals < 4 THEN MaxNotionals ELSE 4)

\* Decimal(2) ** 192 and Decimal(10) ** 12, in the scaled units
Q192 == Pow2(2 * SqrtPriceFracBits)
DecAdjust == Dec(Pow10(UsdcWethDecGap))

\* mutant: every pool that is not USDC/WETH is read as WETH/USDC
eth_usd_from_univ3_else(token0, token1, sqrtp) ==
    IF sqrtp <= 0 THEN NaN
    ELSE LET p_raw == Rat(sqrtp * sqrtp, Q192)
         IN  IF token0 = USDC /\ token1 = WETH
             THEN DMul(DDiv(Dec(1), p_raw), DecAdjust)
             ELSE DMul(p_raw, DecAdjust)

\* eth_usd_from_univ3, on the sqrtPriceX96 that slot0() returned
eth_usd_from_univ3(token0, token1, sqrtp) ==
    IF sqrtp <= 0 THEN NaN
    ELSE LET p_raw == Rat(sqrtp * sqrtp, Q192)
         IN  IF token0 = USDC /\ token1 = WETH
             THEN DMul(DDiv(Dec(1), p_raw), DecAdjust)
             ELSE IF token0 = WETH /\ token1 = USDC
             THEN DMul(p_raw, DecAdjust)
             ELSE NaN

\* `not x.is_finite() or x <= 0`
PriceUnusable(x) == ~is_finite(x) \/ x.n <= 0

\* float(x) if x.is_finite() else nan  (binary rounding of float() not modelled)
Float(x) == IF is_finite(x) THEN x ELSE NaN

\* One remote read of the run, as logged in `chain`
Obs(b, op, dir, usd, ok, val, val2) ==
    [b |-> b, op |-> op, dir |-> dir, usd |-> usd, ok |-> ok, val |-> val, val2 |-> val2]

\* sort_values(["block_number", "direction", "usd_notional_in"]): the direction
\* strings compare as text, "ETH->IXS" < "IXS->ETH"
DirRank(direction) == IF direction = "ETH->IXS" THEN 0 ELSE 1

\* mutant: the frame is sorted by ["block_number"] alone
KeyLe_block_only(r1, r2) == r1.block_number <= r2.block_number

\* mutant: the frame is sorted by ["block_number", "usd_notional_in", "direction"]
KeyLe_notional_first(r1, r2) ==
    \/ r1.block_number < r2.block_number
    \/ /\ r1.block_number = r2.block_number
       /\ \/ r1.usd_notional_in < r2.usd_notional_in
          \/ /\ r1.usd_notional_in = r2.usd_notional_in
             /\ DirRank(r1.direction) <= DirRank(r2.direction)

KeyLe(r1, r2) ==
    \/ r1.block_number < r2.block_number
    \/ /\ r1.block_number = r2.block_number
       /\ \/ DirRank(r1.direction) < DirRank(r2.direction)
          \/ /\ DirRank(r1.direction) = DirRank(r2.direction)
             /\ r1.usd_notional_in <= r2.usd_notional_in

RECURSIVE InsertRow(_, _)
InsertRow(r, sorted) ==
    IF sorted = <<>> THEN <<r>>
    ELSE IF KeyLe(sorted[Len(sorted)], r) THEN Append(sorted, r)
    ELSE Append(InsertRow(r, SubSeq(sorted, 1, Len(sorted) - 1)), sorted[Len(sorted)])

RECURSIVE SortRows(_)
SortRows(rs) ==
    IF rs = <<>> THEN <<>>
    ELSE InsertRow(rs[Len(rs)], SortRows(SubSeq(rs, 1, Len(rs) - 1)))

\* The values slot0() returns for sqrtPriceX96, and getReserves() for
\* (reserve_weth_raw, reserve_ixs_raw)
SqrtPrices == {0, 2}
ReserveReads ==
    {<<0, 100>>, <<1, 400>>, <<4, 10>>, <<10, 400>>, <<40, 100>>, <<400, 401>>, <<400, 403>>}
\* What the quoter does for one call of the series loop
MainRemoteOutcomes == {Remote(TRUE, 0, 0), Remote(FALSE, 0, 1), Remote(FALSE, 3, 1)}

V3Orders == {<<USDC, WETH>>, <<WETH, USDC>>, <<WETH, "OTHER">>}
DecimalPairs == {<<0, 1>>, <<1, 0>>}
MigBlocks == {0, 2}
Strides == {1, 2}

----------------------------------------------------------------------------
(* Steps shared by both loops *)

\* `continue`: on to the next block
Continue(obs, newCalls) ==
    /\ chain' = chain \o obs
    /\ calls' = calls \o newCalls
    /\ bi' = bi + 1
    /\ UNCHANGED <<prog, pc, args, ret, cfg, blocks, rows, error, loc, written>>

Abort(exc, obs, newRows, newCalls) ==
    /\ pc' = "aborted" /\ error' = exc
    /\ chain' = chain \o obs
    /\ rows' = rows \o newRows
    /\ calls' = calls \o newCalls
    /\ UNCHANGED <<prog, args, ret, cfg, blocks, bi, loc, written>>

\* After the loop: an empty frame raises, otherwise the frame is sorted and written
Finish ==
    /\ prog = "main" /\ pc = "loop" /\ bi > Len(blocks)
    /\ IF rows = <<>>
       THEN /\ pc' = "aborted" /\ error' = "RuntimeError"
            /\ UNCHANGED written
       ELSE /\ pc' = "done" /\ written' = SortRows(rows)
            /\ UNCHANGED error
    /\ UNCHANGED <<prog, args, ret, cfg, blocks, bi, rows, chain, calls, loc>>

----------------------------------------------------------------------------
(* 05_univ2_slippage_pre_usd.py: main() *)

\* mutant: the spot price is quoted net of the 0.3% fee
V2Spot_netfee(reserve_out, reserve_in) ==
    DMul(DDiv(reserve_out, reserve_in), Rat(UNIV2_FEE_NUM, UNIV2_FEE_DEN))

\* `spot_ixs_per_eth = reserve_ixs / reserve_weth`,
\* `spot_eth_per_ixs = reserve_weth / reserve_ixs`: the spot price from the
\* reserves in human units
V2Spot(reserve_out, reserve_in) == DDiv(reserve_out, reserve_in)

CfgV2 ==
    [venue : {"V2"}, migration_block : MigBlocks, lookback_blocks : 0..MaxLookback,
     stride : Strides, pair : {<<WETH, IXS>>, <<IXS, WETH>>, <<IXS, "OTHER">>},
     v3 : V3Orders, decs : DecimalPairs]

\* decs = <<ixs_dec, weth_dec>>
ixs_dec == cfg.decs[1]
weth_dec == cfg.decs[2]

V2Row(b, direction, usd, eth_usd, ixs_usd, amt_in, amt_out, spot, unit, exec, ev) ==
    [period |-> "UniV2 pre", block_number |-> b, direction |-> direction,
     usd_notional_in |-> usd, eth_usd |-> Float(eth_usd), ixs_usd |-> Float(ixs_usd),
     amount_in |-> Float(amt_in), amount_out |-> Float(amt_out),
     spot_price |-> Float(spot), spot_price_unit |-> unit,
     avg_exec_price |-> Float(exec), avg_exec_price_unit |-> unit,
     gross_slippage_pct |-> Float(ev.gross),
     slippage_excl_fees_pct_raw |-> Float(ev.excl),
     fee_rate |-> Float(UNIV2_FEE_RATE)]

\* The body of `for usd_notional in notionals` for one notional; c holds the
\* block's locals.  Returns the rows appended and the exception raised, if any.
V2NotionalRows(b, usd, c) ==
    LET amt_in_weth == DDiv(Dec(usd), c.eth_usd)
        amt_in_weth_raw == to_raw(amt_in_weth, c.weth_dec)
        amt_out_ixs_raw ==
            univ2_amount_out(amt_in_weth_raw, c.reserve_weth_raw, c.reserve_ixs_raw)
        amt_out_ixs == from_raw(amt_out_ixs_raw, c.ixs_dec)
        take1 == amt_in_weth.n > 0 /\ amt_out_ixs.n > 0
        exec_ixs_per_eth == DDiv(amt_out_ixs, amt_in_weth)
        ev1 == compute_slippage_pct(c.spot_ixs_per_eth, exec_ixs_per_eth, UNIV2_FEE_RATE)
        rows1 == IF take1
                 THEN <<V2Row(b, "ETH->IXS", usd, c.eth_usd, c.ixs_usd, amt_in_weth,
                              amt_out_ixs, c.spot_ixs_per_eth, "IXS_per_ETH",
                              exec_ixs_per_eth, ev1)>>
                 ELSE <<>>
        amt_in_ixs == DDiv(Dec(usd), c.ixs_usd)
        amt_in_ixs_raw == to_raw(amt_in_ixs, c.ixs_dec)
        amt_out_weth_raw ==
            univ2_amount_out(amt_in_ixs_raw, c.reserve_ixs_raw, c.reserve_weth_raw)
        amt_out_weth == from_raw(amt_out_weth_raw, c.weth_dec)
        take2 == amt_in_ixs.n > 0 /\ amt_out_weth.n > 0
        exec_eth_per_ixs == DDiv(amt_out_weth, amt_in_ixs)
        ev2 == compute_slippage_pct(c.spot_eth_per_ixs, exec_eth_per_ixs, UNIV2_FEE_RATE)
        rows2 == IF take2
                 THEN <<V2Row(b, "IXS->ETH", usd, c.eth_usd, c.ixs_usd, amt_in_ixs,
                              amt_out_weth, c.spot_eth_per_ixs, "ETH_per_IXS",
                              exec_eth_per_ixs, ev2)>>
                 ELSE <<>>
    IN  IF take1 /\ ev1.exc # "none" THEN [rows |-> <<>>, exc |-> ev1.exc]
        ELSE IF take2 /\ ev2.exc # "none" THEN [rows |-> rows1, exc |-> ev2.exc]
        ELSE [rows |-> rows1 \o rows2, exc |-> "none"]

\* The notional loop from index k on
RECURSIVE V2Notionals(_, _, _)
V2Notionals(k, b, c) ==
    IF k > Len(notionals) THEN [rows |-> <<>>, exc |-> "none"]
    ELSE LET one == V2NotionalRows(b, notionals[k], c)
         IN  IF one.exc # "none" THEN one
             ELSE LET rest == V2Notionals(k + 1, b, c)
                  IN  [rows |-> one.rows \o rest.rows, exc |-> rest.exc]

\* Before the loop: resolve the pair's sides, sample the pre-migration blocks
V2Start ==
    /\ prog = "main" /\ cfg.venue = "V2" /\ pc = "start"
    /\ IF cfg.pair[1] # WETH /\ cfg.pair[2] # WETH
       THEN /\ pc' = "aborted" /\ error' = "RuntimeError"
            /\ UNCHANGED <<blocks, bi>>
       ELSE LET end_block == Max(0, cfg.migration_block - 1)
                start_block == Max(0, end_block - cfg.lookback_blocks)
                rng == PyRange(start_block, end_block + 1, cfg.stride)
                bl == IF rng # <<>> /\ rng[Len(rng)] # end_block
                      THEN Append(rng, end_block) ELSE rng
            IN  IF bl = <<>>
                THEN /\ pc' = "aborted" /\ error' = "RuntimeError"
                     /\ UNCHANGED <<blocks, bi>>
                ELSE /\ blocks' = bl /\ bi' = 1 /\ pc' = "loop"
                     /\ UNCHANGED error
    /\ UNCHANGED <<prog, args, ret, cfg, rows, chain, calls, loc, written>>

\* One iteration of `for i, b in enumerate(blocks)`
V2Block ==
    /\ prog = "main" /\ cfg.venue = "V2" /\ pc = "loop" /\ bi <= Len(blocks)
    /\ LET b == blocks[bi]
           blkOk == Obs(b, "get_block", "", 0, TRUE, 0, 0)
       IN
       \/ \* w3.eth.get_block raises: continue
          Continue(<<Obs(b, "get_block", "", 0, FALSE, 0, 0)>>, <<>>)
       \/ \* slot0().call raises inside eth_usd_from_univ3: not caught
          Abort("RemoteError", <<blkOk, Obs(b, "slot0", "", 0, FALSE, 0, 0)>>, <<>>, <<>>)
       \/ \E sqrtp \in SqrtPrices :
            LET eth_usd == eth_usd_from_univ3(cfg.v3[1], cfg.v3[2], sqrtp)
                slotOk == Obs(b, "slot0", "", 0, TRUE, sqrtp, 0)
            IN  IF PriceUnusable(eth_usd)
                THEN Continue(<<blkOk, slotOk>>, <<>>)
                ELSE
                \/ \* getReserves().call raises: continue
                   Continue(<<blkOk, slotOk, Obs(b, "getReserves", "", 0, FALSE, 0, 0)>>,
                            <<>>)
                \/ \E rr \in ReserveReads :
                     LET weth_is_token0 == cfg.pair[1] = WETH
                         r0 == IF weth_is_token0 THEN rr[1] ELSE rr[2]
                         r1 == IF weth_is_token0 THEN rr[2] ELSE rr[1]
                         reserve_weth_raw == IF weth_is_token0 THEN r0 ELSE r1
                         reserve_ixs_raw == IF weth_is_token0 THEN r1 ELSE r0
                         reserve_weth == from_raw(reserve_weth_raw, weth_dec)
                         reserve_ixs == from_raw(reserve_ixs_raw, ixs_dec)
                         obs == <<blkOk, slotOk, Obs(b, "getReserves", "", 0, TRUE, r0, r1)>>
                     IN  IF reserve_weth.n <= 0 \/ reserve_ixs.n <= 0
                         THEN Continue(obs, <<>>)
                         ELSE LET spot_ixs_per_eth == V2Spot(reserve_ixs, reserve_weth)
                                  spot_eth_per_ixs == V2Spot(reserve_weth, reserve_ixs)
                                  ixs_usd == DMul(spot_eth_per_ixs, eth_usd)
                                  c == [eth_usd |-> eth_usd, ixs_usd |-> ixs_usd,
                                        reserve_weth_raw |-> reserve_weth_raw,
                                        reserve_ixs_raw |-> reserve_ixs_raw,
                                        spot_ixs_per_eth |-> spot_ixs_per_eth,
                                        spot_eth_per_ixs |-> spot_eth_per_ixs,
                                        weth_dec |-> weth_dec, ixs_dec |-> ixs_dec]
                                  body == V2Notionals(1, b, c)
                              IN  IF PriceUnusable(ixs_usd)
                                  THEN Continue(obs, <<>>)
                                  ELSE IF body.exc # "none"
                                  THEN Abort(body.exc, obs, body.rows, <<>>)
                                  ELSE /\ rows' = rows \o body.rows
                                       /\ chain' = chain \o obs
                                       /\ bi' = bi + 1
                                       /\ UNCHANGED <<prog, pc, args, ret, cfg, blocks,
                                                      calls, error, loc, written>>

----------------------------------------------------------------------------
(* 06_univ4_slippage_post_usd.py: main() *)

\* the chain head w3.eth.block_number is migration_block + ahead, never negative
CfgV4 ==
    {c \in [venue : {"V4"}, migration_block : MigBlocks, ahead : (0 - 1)..MaxAhead,
             stride : Strides,
             pool_key : {PoolKey(ETH, IXS, 3000, 60, "hooks"),
                         PoolKey(IXS, ETH, 3000, 60, "hooks"),
                         PoolKey(ETH, "OTHER", 3000, 60, "hooks")},
             v3 : V3Orders, decs : DecimalPairs] :
        c.migration_block + c.ahead >= 0}

\* w3.eth.block_number
latest == cfg.migration_block + cfg.ahead
ixs_addr == IXS
eth_currency ==
    IF cfg.pool_key.currency0 = ixs_addr THEN cfg.pool_key.currency1
    ELSE cfg.pool_key.currency0
eth_dec == cfg.decs[2]
fee_rate == fee_to_rate(cfg.pool_key.fee)
usd_sizes == notionals
\* UNIV4_SPOT_TINY_IXS, UNIV4_SPOT_TINY_ETH (defaults)
tiny_ixs == Rat(1, 10000)
tiny_eth == Rat(1, 1000000)

V4Row(b, direction, usd, eth_usd, amount_in, out, spot, unit, avg, ev, gas) ==
    [block_number |-> b, direction |-> direction, usd_notional_in |-> usd,
     eth_usd |-> Float(eth_usd), amount_in |-> Float(amount_in),
     amount_out |-> Float(out), spot_price |-> Float(spot), spot_price_unit |-> unit,
     avg_exec_price |-> Float(avg), avg_exec_price_unit |-> unit,
     gross_slippage_pct |-> Float(ev.gross),
     slippage_excl_fees_pct_raw |-> Float(ev.excl),
     fee_rate |-> Float(fee_rate), fee_uint24 |-> cfg.pool_key.fee,
     gas_estimate |-> gas]

\* mutant: only the first spot estimate is looked at
V4SpotsUnusable_first(spot_eth_per_ixs, spot_ixs_per_eth) ==
    spot_eth_per_ixs = None \/ spot_eth_per_ixs.n <= 0

\* `if a is None or b is None: continue` / `if a <= 0 or b <= 0: continue`
V4SpotsUnusable(spot_eth_per_ixs, spot_ixs_per_eth) ==
    \/ spot_eth_per_ixs = None \/ spot_ixs_per_eth = None
    \/ spot_eth_per_ixs.n <= 0 \/ spot_ixs_per_eth.n <= 0

\* One direction of one notional: size, quote (exceptions caught as a zero
\* quote), average price, slippage.  Returns the row, the call, the log entry
\* and the exception the evaluator raised, if any.
V4Direction(b, direction, usd, token_in, in_dec, out_dec, price_usd, spot, unit, remote) ==
    LET usdN == Dec(usd)
        amount_in == DDiv(usdN, price_usd)
        amount_in_raw == to_raw(amount_in, in_dec)
        q == quote_exact_in_single(cfg.pool_key, token_in, amount_in_raw, remote)
        out_raw == IF q.exc # "none" THEN 0 ELSE q.out
        gas == IF q.exc # "none" THEN 0 ELSE q.gas
        out == from_raw(out_raw, out_dec)
        avg == IF out.n > 0 /\ amount_in.n > 0 THEN DDiv(out, amount_in) ELSE NaN
        ev == slippage_excl_fees_pct(spot, avg, fee_rate)
    IN  [exc |-> ev.exc, call |-> q.call,
         obs |-> Obs(b, "quote", direction, usd, q.exc = "none", out_raw, amount_in_raw),
         row |-> V4Row(b, direction, usd, loc.eth_usd, amount_in, out, spot, unit, avg,
                       ev, gas)]

\* 09_vault_timeseries.py, main(): the post-migration block sample
\* `blocks = list(range(mig_block, latest + 1, block_stride))`,
\* `if not blocks or blocks[-1] != latest: blocks.append(latest)`
vault_blocks(mig_block, latest_block, block_stride) ==
    LET rng == PyRange(mig_block, latest_block + 1, block_stride)
    IN  IF rng = <<>> THEN <<latest_block>>
        ELSE IF rng[Len(rng)] # latest_block THEN Append(rng, latest_block)
        ELSE rng

\* Before the loop: check the token link, sample the post-migration blocks
V4Start ==
    /\ prog = "main" /\ cfg.venue = "V4" /\ pc = "start"
    /\ IF ixs_addr # cfg.pool_key.currency0 /\ ixs_addr # cfg.pool_key.currency1
       THEN /\ pc' = "aborted" /\ error' = "RuntimeError"
            /\ UNCHANGED <<blocks, bi>>
       ELSE LET rng == PyRange(cfg.migration_block, latest + 1, cfg.stride)
            IN  IF rng = <<>>   \* blocks[-1] on an empty list
                THEN /\ pc' = "aborted" /\ error' = "IndexError"
                     /\ UNCHANGED <<blocks, bi>>
                ELSE /\ blocks' = IF rng[Len(rng)] # latest THEN Append(rng, latest)
                                  ELSE rng
                     /\ bi' = 1 /\ pc' = "loop"
                     /\ UNCHANGED error
    /\ UNCHANGED <<prog, args, ret, cfg, rows, chain, calls, loc, written>>

\* One iteration of `for i, b in enumerate(blocks)` up to the notional loop
V4Block ==
    /\ prog = "main" /\ cfg.venue = "V4" /\ pc = "loop" /\ bi <= Len(blocks)
    /\ LET b == blocks[bi]
           blkOk == Obs(b, "get_block", "", 0, TRUE, 0, 0)
       IN
       \/ \* w3.eth.get_block raises: continue
          Continue(<<Obs(b, "get_block", "", 0, FALSE, 0, 0)>>, <<>>)
       \/ \* slot0().call raises inside eth_usd_from_univ3: not caught
          Abort("RemoteError", <<blkOk, Obs(b, "slot0", "", 0, FALSE, 0, 0)>>, <<>>, <<>>)
       \/ \E sqrtp \in SqrtPrices :
            LET eth_usd == eth_usd_from_univ3(cfg.v3[1], cfg.v3[2], sqrtp)
                slotOk == Obs(b, "slot0", "", 0, TRUE, sqrtp, 0)
            IN  IF PriceUnusable(eth_usd)
                THEN Continue(<<blkOk, slotOk>>, <<>>)
                ELSE \E m1, m2 \in MainRemoteOutcomes :
                  LET s1 == spot_out_per_in_from_microquote(
                                cfg.pool_key, ixs_addr, eth_dec, ixs_dec, fee_rate,
                                tiny_ixs, m1)
                      s2 == spot_out_per_in_from_microquote(
                                cfg.pool_key, eth_currency, ixs_dec, eth_dec, fee_rate,
                                tiny_eth, m2)
                      spot_eth_per_ixs == s1.spot
                      spot_ixs_per_eth == s2.spot
                      obs == <<blkOk, slotOk,
                               Obs(b, "micro", "IXS->ETH", 0, ~m1.revert,
                                   IF m1.revert THEN 0 ELSE m1.out, 0),
                               Obs(b, "micro", "ETH->IXS", 0, ~m2.revert,
                                   IF m2.revert THEN 0 ELSE m2.out, 0)>>
                      newCalls == s1.call \o s2.call
                      spot_ixs_usd == DMul(spot_eth_per_ixs, eth_usd)
                  IN  IF V4SpotsUnusable(spot_eth_per_ixs, spot_ixs_per_eth)
                      THEN Continue(obs, newCalls)
                      ELSE IF spot_ixs_usd.n <= 0
                      THEN Continue(obs, newCalls)
                      ELSE /\ pc' = "notional"
                           /\ loc' = [ni |-> 1, eth_usd |-> eth_usd,
                                      spot_eth_per_ixs |-> spot_eth_per_ixs,
                                      spot_ixs_per_eth |-> spot_ixs_per_eth,
                                      spot_ixs_usd |-> spot_ixs_usd]
                           /\ chain' = chain \o obs
                           /\ calls' = calls \o newCalls
                           /\ UNCHANGED <<prog, args, ret, cfg, blocks, bi, rows, error,
                                          written>>

\* One iteration of `for usd_notional in usd_sizes`: both directions
V4Notional ==
    /\ prog = "main" /\ cfg.venue = "V4" /\ pc = "notional"
    /\ \E r1, r2 \in MainRemoteOutcomes :
         LET b == blocks[bi]
             usd == usd_sizes[loc.ni]
             d1 == V4Direction(b, "IXS->ETH", usd, ixs_addr, ixs_dec, eth_dec,
                               loc.spot_ixs_usd, loc.spot_eth_per_ixs, "ETH_per_IXS", r1)
             d2 == V4Direction(b, "ETH->IXS", usd, eth_currency, eth_dec, ixs_dec,
                               loc.eth_usd, loc.spot_ixs_per_eth, "IXS_per_ETH", r2)
         IN  IF d1.exc # "none"
             THEN Abort(d1.exc, <<d1.obs>>, <<>>, d1.call)
             ELSE IF d2.exc # "none"
             THEN Abort(d2.exc, <<d1.obs, d2.obs>>, <<d1.row>>, d1.call \o d2.call)
             ELSE /\ rows' = rows \o <<d1.row, d2.row>>
                  /\ chain' = chain \o <<d1.obs, d2.obs>>
                  /\ calls' = calls \o d1.call \o d2.call
                  /\ IF loc.ni < Len(usd_sizes)
                     THEN /\ loc' = [loc EXCEPT !.ni = loc.ni + 1]
                          /\ UNCHANGED <<pc, bi>>
                     ELSE /\ loc' = NoLoc /\ pc' = "loop" /\ bi' = bi + 1
                  /\ UNCHANGED <<prog, args, ret, cfg, blocks, error, written>>

----------------------------------------------------------------------------
(* The series runs *)

Init ==
    /\ prog = "main" /\ pc = "start"
    /\ cfg \in CfgV2 \cup CfgV4
    /\ args = [fn |-> "main"] /\ ret = NoRet
    /\ blocks = <<>> /\ bi = 0 /\ rows = <<>> /\ chain = <<>> /\ calls = <<>>
    /\ error = "none" /\ loc = NoLoc /\ written = <<>>

Next ==
    \/ V2Start
    \/ V2Block
    \/ V4Start
    \/ V4Block
    \/ V4Notional
    \/ Finish

Spec == Init /\ [][Next]_vars

----------------------------------------------------------------------------
(* Claims about the series runs, checked under Spec *)

\* The rows held in memory and the rows written
AllRows == {rows[k] : k \in 1..Len(rows)} \cup {written[k] : k \in 1..Len(written)}
Log == {chain[k] : k \in 1..Len(chain)}

RowComplete(r) ==
    /\ is_finite(r.spot_price) /\ r.spot_price.n > 0
    /\ is_finite(r.amount_out) /\ r.amount_out.n > 0
    /\ is_finite(r.avg_exec_price) /\ r.avg_exec_price.n > 0
    /\ is_finite(r.gross_slippage_pct)
    /\ is_finite(r.slippage_excl_fees_pct_raw)

\* C6: a (block, direction, notional) whose spot or execution price is
\* unavailable (zero output, reverted quote, zero or unread reserves, failed
\* micro-quote) has no row: every row of the series, in memory and written,
\* carries a finite avg_exec_price, gross slippage and slippage excluding fees,
\* in the V2 and in the V4 series.
C6_NoRowWithoutPrices ==
    prog = "main" =>
        /\ \A r \in AllRows : RowComplete(r)
        /\ \A o \in Log :
              /\ (o.op = "quote" /\ (~o.ok \/ o.val = 0)) =>
                    ~\E r \in AllRows : /\ r.block_number = o.b
                                         /\ r.direction = o.dir
                                         /\ r.usd_notional_in = o.usd
              /\ (o.op = "micro" /\ (~o.ok \/ o.val = 0)) =>
                    ~\E r \in AllRows : r.block_number = o.b
              /\ (o.op = "getReserves" /\ (~o.ok \/ o.val = 0 \/ o.val2 = 0)) =>
                    ~\E r \in AllRows : r.block_number = o.b

\* a V2 series was written in which one block has a row for a notional in one
\* direction and none in the other direction (its quote gave zero output)
C6_Witness ==
    /\ prog = "main" /\ cfg.venue = "V2" /\ pc = "done" /\ written # <<>>
    /\ \E k \in 1..Len(written) :
          /\ written[k].direction = "ETH->IXS"
          /\ ~\E j \in 1..Len(written) :
                /\ written[j].block_number = written[k].block_number
                /\ written[j].usd_notional_in = written[k].usd_notional_in
                /\ written[j].direction = "IXS->ETH"

\* C7 as stated: in the V4 loop the failure of one remote quote does not abort
\* the run (the run is never aborted right at a per-notional quote that raised).
C7_QuoteFailureNeverAborts ==
    ~ ( /\ prog = "main" /\ cfg.venue = "V4" /\ pc = "aborted"
        /\ chain # <<>>
        /\ chain[Len(chain)].op = "quote"
        /\ ~chain[Len(chain)].ok )

\* the slot0 read of block b, if the run made one
SlotReads(b) == {o \in Log : o.op = "slot0" /\ o.b = b}

\* C8: a block whose ETH/USD reference price is unavailable or <= 0 (slot0 not
\* read, sqrtPriceX96 = 0, or a pool that is not WETH/USDC), and so whose token
\* USD price is too, has no row for any notional and direction; no row has a
\* zero input amount.
C8_NoRowWithoutUsdPrice ==
    prog = "main" =>
        \A r \in AllRows :
            /\ \E o \in SlotReads(r.block_number) : o.ok /\ o.val > 0
            /\ cfg.v3 \in {<<USDC, WETH>>, <<WETH, USDC>>}
            /\ is_finite(r.eth_usd) /\ r.eth_usd.n > 0
            /\ cfg.venue = "V2" => (is_finite(r.ixs_usd) /\ r.ixs_usd.n > 0)
            /\ is_finite(r.amount_in) /\ r.amount_in.n > 0

\* a series was written although one sampled block had sqrtPriceX96 = 0
C8_Witness ==
    /\ prog = "main" /\ pc = "done" /\ written # <<>>
    /\ \E o \in Log : o.op = "slot0" /\ o.ok /\ o.val = 0

MicroReads(b) == {o \in Log : o.op = "micro" /\ o.b = b}
MicroFailed(o) == o.op = "micro" /\ (~o.ok \/ o.val = 0)

\* C9: when a micro-quote of a block returns 0 or reverts, in either
\* direction, the estimator returns None for it, the notional loop is not
\* entered for that block, and the V4 series has no row of that block.
C9_NoRowWithoutSpot ==
    (prog = "main" /\ cfg.venue = "V4") =>
        /\ \A o \in Log : MicroFailed(o) =>
              /\ spot_out_per_in_from_microquote(
                     cfg.pool_key, ixs_addr, eth_dec, ixs_dec, fee_rate, tiny_ixs,
                     Remote(~o.ok, o.val, 1)).spot = None
              /\ spot_out_per_in_from_microquote(
                     cfg.pool_key, eth_currency, ixs_dec, eth_dec, fee_rate, tiny_eth,
                     Remote(~o.ok, o.val, 1)).spot = None
              /\ ~\E r \in AllRows : r.block_number = o.b
              /\ pc = "notional" => blocks[bi] # o.b

\* a V4 series was written although a micro-quote of one sampled block
\* returned 0
C9_Witness ==
    /\ prog = "main" /\ cfg.venue = "V4" /\ pc = "done" /\ written # <<>>
    /\ \E o \in Log : o.op = "micro" /\ o.ok /\ o.val = 0

\* the reserves (weth, ixs) a V2 run read at block b
V2Reserves(b) ==
    {IF cfg.pair[1] = WETH THEN <<o.val, o.val2>> ELSE <<o.val2, o.val>> :
        o \in {x \in Log : x.op = "getReserves" /\ x.b = b /\ x.ok}}

\* C16: the V2 spot price of a row is reserve_out / reserve_in of its block in
\* human units, with no fee term, and two blocks whose reserves differ by a
\* common positive factor have the same spot price.
C16_SpotIsReserveRatio ==
    (prog = "main" /\ cfg.venue = "V2") =>
        /\ \A r \in AllRows : \E rr \in V2Reserves(r.block_number) :
              /\ r.direction = "ETH->IXS" =>
                    r.spot_price = Rat(rr[2] * Pow10(weth_dec), rr[1] * Pow10(ixs_dec))
              /\ r.direction = "IXS->ETH" =>
                    r.spot_price = Rat(rr[1] * Pow10(ixs_dec), rr[2] * Pow10(weth_dec))
        /\ \A r1, r2 \in AllRows :
              (/\ r1.direction = r2.direction
               /\ \E a \in V2Reserves(r1.block_number), b \in V2Reserves(r2.block_number) :
                     a[1] * b[2] = b[1] * a[2])
              => r1.spot_price = r2.spot_price

\* a V2 series was written with rows of two blocks whose reserves are (4, 10)
\* and (40, 100): the same spot price at ten times the depth
C16_Witness ==
    /\ prog = "main" /\ cfg.venue = "V2" /\ pc = "done"
    /\ \E j, k \in 1..Len(written) :
          /\ written[j].direction = written[k].direction
          /\ V2Reserves(written[j].block_number) = {<<4, 10>>}
          /\ V2Reserves(written[k].block_number) = {<<40, 100>>}
          /\ written[j].spot_price = written[k].spot_price

\* the sort key of a record, the direction by its place in text order
SortKey(r) ==
    <<r.block_number, IF r.direction = "ETH->IXS" THEN 1 ELSE 2, r.usd_notional_in>>

\* C17: the written series is ascending by (block_number, direction,
\* usd_notional_in): of two consecutive records the first one's key is <= the
\* second one's, in the V2 and in the V4 series.
C17_WrittenSorted ==
    prog = "main" =>
        \A k \in 1..(Len(written) - 1) :
            LET a == SortKey(written[k])
                b == SortKey(written[k + 1])
            IN  \/ a[1] < b[1]
                \/ a[1] = b[1] /\ a[2] < b[2]
                \/ a[1] = b[1] /\ a[2] = b[2] /\ a[3] <= b[3]

\* a series was written whose order differs from the order the loop appended
\* the rows in
C17_Witness ==
    /\ prog = "main" /\ pc = "done" /\ Len(written) >= 3
    /\ written # rows
    /\ \E k \in 1..(Len(rows) - 1) :
          /\ rows[k].block_number = rows[k + 1].block_number
          /\ rows[k].direction = "IXS->ETH" /\ rows[k + 1].direction = "ETH->IXS"

\* the indices of the written records with the key (b, direction, usd)
WrittenAt(b, direction, usd) ==
    {k \in 1..Len(written) : /\ written[k].block_number = b
                             /\ written[k].direction = direction
                             /\ written[k].usd_notional_in = usd}

\* The raw output of the V2 quote of (b, direction, usd), recomputed from what
\* the run read at block b: 0 when the block could not be priced
V2QuoteOut(b, direction, usd) ==
    IF V2Reserves(b) = {} THEN 0
    ELSE LET rr == CHOOSE x \in V2Reserves(b) : TRUE
             sl == CHOOSE o \in SlotReads(b) : TRUE
             eth_usd == eth_usd_from_univ3(cfg.v3[1], cfg.v3[2], sl.val)
         IN  IF rr[1] <= 0 \/ rr[2] <= 0 THEN 0
             ELSE LET price_ixs == DMul(DDiv(from_raw(rr[1], weth_dec),
                                             from_raw(rr[2], ixs_dec)), eth_usd)
                  IN  IF direction = "ETH->IXS"
                      THEN univ2_amount_out(to_raw(DDiv(Dec(usd), eth_usd), weth_dec),
                                            rr[1], rr[2])
                      ELSE univ2_amount_out(to_raw(DDiv(Dec(usd), price_ixs), ixs_dec),
                                            rr[2], rr[1])

\* C18: the written series holds exactly one record for every (sampled block,
\* direction, notional) that sized and quoted (a positive output), every
\* record belongs to a sampled block, and no two records share a key.
C18_OneRecordPerCombination ==
    (prog = "main" /\ pc = "done") =>
        /\ \A k \in 1..Len(written) :
              /\ \E i \in 1..Len(blocks) : blocks[i] = written[k].block_number
              /\ WrittenAt(written[k].block_number, written[k].direction,
                           written[k].usd_notional_in) = {k}
        /\ cfg.venue = "V4" =>
              \A o \in Log : (o.op = "quote" /\ o.ok /\ o.val > 0) =>
                  Cardinality(WrittenAt(o.b, o.dir, o.usd)) = 1
        /\ cfg.venue = "V2" =>
              \A i \in 1..Len(blocks), n \in 1..Len(notionals),
                 direction \in {"ETH->IXS", "IXS->ETH"} :
                  V2QuoteOut(blocks[i], direction, notionals[n]) > 0 =>
                      Cardinality(WrittenAt(blocks[i], direction, notionals[n])) = 1

\* a V2 series was written over two sampled blocks, with records of both
\* blocks and one combination of a priced block left out
C18_Witness ==
    /\ prog = "main" /\ cfg.venue = "V2" /\ pc = "done" /\ Len(blocks) >= 2
    /\ \E j, k \in 1..Len(written) : written[j].block_number # written[k].block_number
    /\ \E i \in 1..Len(blocks), n \in 1..Len(notionals) :
          /\ V2QuoteOut(blocks[i], "ETH->IXS", notionals[n]) > 0
          /\ V2QuoteOut(blocks[i], "IXS->ETH", notionals[n]) = 0
          /\ WrittenAt(blocks[i], "IXS->ETH", notionals[n]) = {}

\* rs with the elements at i and j exchanged
Swap(rs, i, j) ==
    [k \in 1..Len(rs) |-> IF k = i THEN rs[j] ELSE IF k = j THEN rs[i] ELSE rs[k]]

\* what the run read at block b, without the block number
ReadsAt(b) == {[o EXCEPT !.b = 0] : o \in {x \in Log : x.b = b}}

C20_MigrationPartitions ==
    prog = "main" =>
        /\ cfg.venue = "V2" =>
              \A k \in 1..Len(blocks) : blocks[k] < cfg.migration_block
        /\ cfg.venue = "V4" =>
              /\ \A k \in 1..Len(blocks) : blocks[k] >= cfg.migration_block
              /\ pc # "start" =>
                    LET vb == vault_blocks(cfg.migration_block, latest, cfg.stride)
                    IN  \A k \in 1..Len(vb) : vb[k] >= cfg.migration_block

\* C21 as stated: in every record of a slippage series avg_exec_price is
\* amount_out / amount_in of that record, in the unit of its spot_price, for
\* both directions, in the V2 and V4 series builders and in the 06c revision.
C21_AvgExecIsOutPerIn ==
    /\ prog = "main" =>
          \A r \in AllRows :
              /\ r.avg_exec_price = DDiv(r.amount_out, r.amount_in)
              /\ r.spot_price_unit = r.avg_exec_price_unit
    /\ (Returned("06c_direction") /\ ret.exc = "none"
          /\ is_finite(ret.row.avg_exec_price)) =>
          /\ ret.row.avg_exec_price = DDiv(ret.row.amount_out, ret.row.amount_in)
          /\ ret.row.spot_price_unit = ret.row.avg_exec_price_unit

\* C22: for positive reserves and amount, the quoted trade leaves the pool
\* with output reserve and does not decrease the constant product:
\* out < r_out and (r_in + a) * (r_out - out) >= r_in * r_out.
C22_ProductNeverDecreases ==
    PositiveQuoteArgs =>
        /\ ret.out < args.reserve_out_raw
        /\ (args.reserve_in_raw + args.amount_in_raw) * (args.reserve_out_raw - ret.out)
              >= args.reserve_in_raw * args.reserve_out_raw

\* a trade with a positive output after which the product has grown
C22_Witness ==
    /\ PositiveQuoteArgs /\ ret.out > 0
    /\ (args.reserve_in_raw + args.amount_in_raw) * (args.reserve_out_raw - ret.out)
          > args.reserve_in_raw * args.reserve_out_raw

\* C23: the integer quoter agrees with the real-valued one: for positive
\* amount and reserves univ2_amount_out is the floor of the rational value of
\* r_out - (r_in * r_out) / (r_in + a * (1 - 0.003)), and both quoters return
\* 0 when an argument is not positive.
C23_IntegerQuoterIsFloorOfReal ==
    Returned("cpmm_amount_out_with_fee") =>
        LET q == univ2_amount_out(args.amount_in, args.reserve_in, args.reserve_out)
        IN  /\ IsNum(ret.out)
            /\ q * ret.out.d <= ret.out.n
            /\ ret.out.n < (q + 1) * ret.out.d
            /\ (args.amount_in <= 0 \/ args.reserve_in <= 0 \/ args.reserve_out <= 0)
                  => (q = 0 /\ ret.out = Dec(0))

\* a real-valued quote that is not an integer, above 1
C23_Witness ==
    /\ Returned("cpmm_amount_out_with_fee")
    /\ ret.out.d > 1 /\ ret.out.n > ret.out.d
    /\ univ2_amount_out(args.amount_in, args.reserve_in, args.reserve_out) >= 1

----------------------------------------------------------------------------
(* The V2 series: fee-excluded slippage and its growth with the notional *)

\* the decimals of the input token of a V2 record
V2InDec(r) == IF r.direction = "ETH->IXS" THEN weth_dec ELSE ixs_dec

\* a / b <= c / d for a, c >= 0 and b, d > 0, compared by integer parts and
\* then by the reciprocals of the remainders (no cross product is formed)
RECURSIVE FracLe(_, _, _, _)
FracLe(a, b, c, d) ==
    IF a \div b # c \div d THEN a \div b < c \div d
    ELSE IF a % b = 0 THEN TRUE
    ELSE IF c % d = 0 THEN FALSE
    ELSE FracLe(d, c % d, b, a % b)

\* x <= y for non-negative numbers
DLeq(x, y) == IsNum(x) /\ IsNum(y) /\ FracLe(x.n, x.d, y.n, y.d)

\* the raw input a V2 record was quoted with
V2RawIn(r) == to_raw(r.amount_in, V2InDec(r))

V2MainRows == IF prog = "main" /\ cfg.venue = "V2" THEN rows ELSE <<>>

\* C24: every record of the V2 series has a fee-excluded slippage >= 0, that
\* is a gross slippage >= 0.3, because its average execution price is at most
\* 997/1000 of its spot price
C24_SlippageExclFeesNonNegative ==
    \A k \in 1..Len(V2MainRows) :
        LET r == V2MainRows[k]
        IN  /\ IsNum(r.slippage_excl_fees_pct_raw)
            /\ r.slippage_excl_fees_pct_raw.n >= 0
            /\ IsNum(r.gross_slippage_pct)
            /\ ~DLt(r.gross_slippage_pct, Rat(3, 10))
            /\ ~DLt(DMul(r.spot_price, Rat(997, 1000)), r.avg_exec_price)

\* a V2 run has appended a record whose gross slippage is below 1 percent
\* and a record whose raw input was floored below the sized amount
C24_Witness ==
    /\ \E k \in 1..Len(V2MainRows) :
          /\ IsNum(V2MainRows[k].gross_slippage_pct)
          /\ DLt(V2MainRows[k].gross_slippage_pct, Dec(1))
    /\ \E k \in 1..Len(V2MainRows) :
          LET r == V2MainRows[k]
          IN  V2RawIn(r) * r.amount_in.d < r.amount_in.n * Pow10(V2InDec(r))

\* The gross slippage, in percent, of the unfloored quote of a raw input a
\* against an input reserve r_in: 100 * (1 - 997 * r_in / (1000 * r_in + 997 * a))
UnflooredGross(a, r_in) ==
    Rat(100 * (3 * r_in + UNIV2_FEE_NUM * a), UNIV2_FEE_DEN * r_in + UNIV2_FEE_NUM * a)


\* the input-side reserves read at the block of a V2 record
V2ReserveIn(r) ==
    {IF r.direction = "ETH->IXS" THEN rr[1] ELSE rr[2] : rr \in V2Reserves(r.block_number)}

\* C25 (as amended): at one block and in one direction, the gross slippage of
\* the record of the larger notional is at least the gross slippage of the
\* unfloored quote of the smaller notional's raw input, and the raw inputs do
\* not decrease with the notional
C25_GrossMonotoneUpToFlooring ==
    \A i, j \in 1..Len(V2MainRows) :
        LET r1 == V2MainRows[i]
            r2 == V2MainRows[j]
        IN  (/\ r1.block_number = r2.block_number
             /\ r1.direction = r2.direction
             /\ r1.usd_notional_in < r2.usd_notional_in)
            => /\ V2RawIn(r1) <= V2RawIn(r2)
               /\ \A r_in \in V2ReserveIn(r1) :
                     /\ DLeq(UnflooredGross(V2RawIn(r1), r_in), r2.gross_slippage_pct)
                     /\ DLeq(UnflooredGross(V2RawIn(r1), r_in), r1.gross_slippage_pct)

\* C25: at one block and in one direction the gross slippage of the V2
\* series does not decrease as the USD notional grows
C25_GrossMonotoneInNotional ==
    \A i, j \in 1..Len(V2MainRows) :
        LET r1 == V2MainRows[i]
            r2 == V2MainRows[j]
        IN  (/\ r1.block_number = r2.block_number
             /\ r1.direction = r2.direction
             /\ r1.usd_notional_in < r2.usd_notional_in)
            => ~DLt(r2.gross_slippage_pct, r1.gross_slippage_pct)

\* a V2 run holds two records of one block and one direction with different
\* notionals
C25_Witness ==
    \E i, j \in 1..Len(V2MainRows) :
        /\ V2MainRows[i].block_number = V2MainRows[j].block_number
        /\ V2MainRows[i].direction = V2MainRows[j].direction
        /\ V2MainRows[i].usd_notional_in < V2MainRows[j].usd_notional_in
        /\ IsNum(V2MainRows[i].gross_slippage_pct)
        /\ IsNum(V2MainRows[j].gross_slippage_pct)

----------------------------------------------------------------------------
(* The block sampler *)

\* C26: for a stride >= 1 and a non-empty window [start, end] the sampled
\* list is strictly increasing, starts at start, ends at end, stays inside the
\* window, and its consecutive elements differ by at most the stride
C26_SamplerCoversWindow ==
    (Returned("sample_blocks") /\ args.start_block <= args.end_block) =>
        LET bl == ret.blocks
        IN  /\ ret.exc = "none" /\ bl # <<>>
            /\ bl[1] = args.start_block
            /\ bl[Len(bl)] = args.end_block
            /\ \A i \in 1..Len(bl) : args.start_block <= bl[i] /\ bl[i] <= args.end_block
            /\ \A i \in 1..(Len(bl) - 1) :
                  bl[i] < bl[i + 1] /\ bl[i + 1] - bl[i] <= args.stride

\* a window whose length is not a multiple of the stride was sampled: the end
\* was appended after at least two strided samples
C26_Witness ==
    /\ Returned("sample_blocks") /\ ret.exc = "none"
    /\ Len(ret.blocks) >= 3
    /\ (args.end_block - args.start_block) % args.stride # 0

----------------------------------------------------------------------------
(* 02_find_migration_block_univ2.py, 03_confirm_migration_events_univ2.py:
   get_logs_safe() under the chunked scan of main() / fetch_topic().

   loc.s      the start of the chunk under scan (the loop variable)
   loc.stack  the ranges get_logs_safe still has to fetch, the innermost
              pending call first: a call on [a, b] that is rejected leaves its
              left half and then its right half to fetch
   loc.got    the ranges the provider answered, in the order their logs are
              concatenated
   loc.asked  every provider call so far with its outcome
   An exception that leaves get_logs_safe unwinds every pending call. *)

\* mutant: the right half starts at mid
split_range_overlap(start, end) ==
    LET mid == (start + end) \div 2
    IN  <<<<start, mid>>, <<mid, end>>>>

\* `mid = (start + end) // 2`; the left call is on [start, mid], the right one
\* on [mid + 1, end]
split_range(start, end) ==
    LET mid == (start + end) \div 2
    IN  <<<<start, mid>>, <<mid + 1, end>>>>

\* mutant: a range of length min_range + 1 is split further
reraises_strict(start, end, min_range) == end - start < min_range

\* `if end - start <= min_range: raise`
reraises(start, end, min_range) == end - start <= min_range

ArgsScan ==
    {a \in [fn : {"fetch_topic"}, start : 0..1, end : 0..MaxScanEnd,
            step : 2..MaxStep, min_range : 0..MaxMinRange] : a.start <= a.end}

InitLogs ==
    /\ prog = "logs" /\ pc = "chunk"
    /\ args \in ArgsScan
    /\ loc = [s |-> args.start, stack |-> <<>>, got |-> <<>>, asked |-> <<>>]
    /\ ret = NoRet /\ cfg = NoCfg /\ blocks = <<>> /\ bi = 0 /\ rows = <<>>
    /\ chain = <<>> /\ calls = <<>> /\ error = "none" /\ written = <<>>

LogsUnchanged == UNCHANGED <<prog, args, cfg, blocks, bi, rows, chain, calls, written>>

\* `for s in range(start, end + 1, step): e = min(s + step - 1, end)`, then
\* the call get_logs_safe(w3, address, topic0, s, e)
ChunkStart ==
    /\ prog = "logs" /\ pc = "chunk" /\ loc.s <= args.end
    /\ loc' = [loc EXCEPT !.stack = <<<<loc.s, Min(loc.s + args.step - 1, args.end)>>>>]
    /\ pc' = "query"
    /\ UNCHANGED <<ret, error>> /\ LogsUnchanged

\* The loop is exhausted: the scan returns what it collected
ScanReturns ==
    /\ prog = "logs" /\ pc = "chunk" /\ loc.s > args.end
    /\ pc' = "returned" /\ ret' = [exc |-> "none", out |-> loc.got]
    /\ UNCHANGED <<loc, error>> /\ LogsUnchanged

PendingRange == loc.stack[1]

\* `return w3.eth.get_logs(params)`: the provider answers; when this was the
\* outermost pending call of the chunk the loop moves to the next chunk
GetLogsReturns ==
    /\ prog = "logs" /\ pc = "query"
    /\ LET rest == Tail(loc.stack)
       IN  /\ loc' = [s |-> IF rest = <<>> THEN loc.s + args.step ELSE loc.s,
                      stack |-> rest,
                      got |-> Append(loc.got, PendingRange),
                      asked |-> Append(loc.asked, <<PendingRange, "ok">>)]
           /\ pc' = IF rest = <<>> THEN "chunk" ELSE "query"
    /\ UNCHANGED <<ret, error>> /\ LogsUnchanged

\* `except HTTPError`: re-raised on a range of at most min_range + 1 blocks,
\* otherwise the two halves are fetched, the left one first
GetLogsHTTPError ==
    /\ prog = "logs" /\ pc = "query"
    /\ LET asked == Append(loc.asked, <<PendingRange, "HTTPError">>)
       IN  IF reraises(PendingRange[1], PendingRange[2], args.min_range)
           THEN /\ pc' = "raised" /\ error' = "HTTPError"
                /\ ret' = [exc |-> "HTTPError"]
                /\ loc' = [loc EXCEPT !.stack = <<>>, !.asked = asked]
           ELSE /\ loc' = [loc EXCEPT
                             !.stack = split_range(PendingRange[1], PendingRange[2])
                                          \o Tail(loc.stack),
                             !.asked = asked]
                /\ UNCHANGED <<pc, ret, error>>
    /\ LogsUnchanged

\* Any other exception of the provider call is not caught
GetLogsOtherError ==
    /\ prog = "logs" /\ pc = "query"
    /\ pc' = "raised" /\ error' = "Exception" /\ ret' = [exc |-> "Exception"]
    /\ loc' = [loc EXCEPT !.stack = <<>>,
                          !.asked = Append(loc.asked, <<PendingRange, "Exception">>)]
    /\ LogsUnchanged

NextLogs ==
    \/ ChunkStart
    \/ ScanReturns
    \/ GetLogsReturns
    \/ GetLogsHTTPError
    \/ GetLogsOtherError

SpecLogs == InitLogs /\ [][NextLogs]_vars

\* The scan is a sequential program: a step that can be taken is taken
SpecLogsFair == SpecLogs /\ WF_vars(NextLogs)

----------------------------------------------------------------------------
(* Claims about the log scan *)

\* the ranges of a sequence follow each other from block a to block b with no
\* gap and no overlap
Partitions(rs, a, b) ==
    /\ rs # <<>>
    /\ rs[1][1] = a /\ rs[Len(rs)][2] = b
    /\ \A i \in 1..Len(rs) : rs[i][1] <= rs[i][2]
    /\ \A i \in 1..(Len(rs) - 1) : rs[i + 1][1] = rs[i][2] + 1

\* C27: when the scan of [start, end] returns normally, what it returns is the
\* concatenation, in ascending block order, of the provider's answers for
\* ranges that partition [start, end]: every block lies in exactly one of them
C27_AnsweredRangesPartition ==
    (prog = "logs" /\ pc = "returned") =>
        /\ Partitions(ret.out, args.start, args.end)
        /\ \A b \in args.start..args.end :
              Cardinality({i \in 1..Len(ret.out) :
                              ret.out[i][1] <= b /\ b <= ret.out[i][2]}) = 1
        /\ \A i \in 1..Len(ret.out) :
              \E j \in 1..Len(loc.asked) : loc.asked[j] = <<ret.out[i], "ok">>

\* a scan of more than one chunk returned after the provider rejected a range,
\* which was then fetched in halves
C27_Witness ==
    /\ prog = "logs" /\ pc = "returned"
    /\ args.end - args.start >= args.step
    /\ \E j \in 1..Len(loc.asked) : loc.asked[j][2] = "HTTPError"

LogsDone == prog = "logs" /\ pc \in {"returned", "raised"}

\* every pending range is non-empty, and a pending range lies inside the
\* range whose rejection produced it and is strictly shorter
PendingRangesShrink ==
    prog = "logs" =>
        /\ \A i \in 1..Len(loc.stack) : loc.stack[i][1] <= loc.stack[i][2]
        /\ \A i \in 1..Len(loc.stack) :
              \A j \in 1..Len(loc.asked) :
                  (/\ loc.asked[j][2] = "HTTPError"
                   /\ loc.asked[j][1][1] <= loc.stack[i][1]
                   /\ loc.stack[i][2] <= loc.asked[j][1][2])
                  => loc.stack[i][2] - loc.stack[i][1]
                        < loc.asked[j][1][2] - loc.asked[j][1][1]

\* a rejection of a range with end - start <= min_range is the last provider
\* call of the run and the run has raised it
SmallRejectionRaised ==
    prog = "logs" =>
        \A j \in 1..Len(loc.asked) :
            (/\ loc.asked[j][2] = "HTTPError"
             /\ loc.asked[j][1][2] - loc.asked[j][1][1] <= args.min_range)
            => (j = Len(loc.asked) /\ pc = "raised" /\ error = "HTTPError")

\* C28: for start <= end and min_range >= 0 the scan terminates whatever
\* provider calls fail: every recursive call is on a strictly smaller range,
\* and a rejection of a range with end - start <= min_range is re-raised
C28_GetLogsSafeTerminates ==
    /\ [](PendingRangesShrink /\ SmallRejectionRaised)
    /\ <>LogsDone

\* the provider rejected a range that was split, then rejected a range of at
\* most min_range + 1 blocks, and the run raised
C28_Witness ==
    /\ prog = "logs" /\ pc = "raised" /\ error = "HTTPError"
    /\ Len(loc.asked) >= 2
    /\ loc.asked[1][2] = "HTTPError"

----------------------------------------------------------------------------
(* The final migration block *)

\* a non-empty burns table with the columns block_number and amount1_WETH
BurnsAvailable(burns) == burns.status = "ok" /\ burns.columns_ok /\ burns.rows # <<>>

\* the blocks of the burns with the largest amount1_WETH
LargestBurnBlocks(burns) == {burns.rows[i].block_number : i \in TopBurns(burns.rows)}

RegimeAvailable == args.rev = "04b" /\ args.regime.k = "object" /\ args.regime.bcp
                      /\ args.regime.block # NoBlock

CandAvailable == args.cand.k = "object" /\ args.cand.has_block /\ args.cand.block # NoBlock

\* C29: the final block is chosen by strict priority: the block of the burn
\* with the largest amount1_WETH when the burns table is available, otherwise
\* the regime-change estimate (04b), otherwise the largest-Sync-drop candidate;
\* selected_by names the source used, and the run raises when no source is
\* available
C29_StrictPriority ==
    Returned("write_final") =>
        IF BurnsAvailable(args.burns)
        THEN /\ ret.exc = "none"
             /\ ret.selected_by \in {"largest_burn_confirm_window", "largest_burn"}
             /\ ret.migration_block_final \in LargestBurnBlocks(args.burns)
        ELSE IF RegimeAvailable
        THEN /\ ret.exc = "none"
             /\ ret.selected_by = "regime_change"
             /\ ret.migration_block_final = args.regime.block
        ELSE IF CandAvailable
        THEN /\ ret.exc = "none"
             /\ ret.selected_by \in {"largest_sync_drop_candidate", "largest_sync_drop"}
             /\ ret.migration_block_final = args.cand.block
        ELSE ret.exc # "none"

----------------------------------------------------------------------------
(* The range coverage table *)

\* the number of ranges that hold tick t: tickLower <= t < tickUpper
Covering(t) ==
    Cardinality({k \in 1..Len(args.df_ranges) :
                    /\ args.df_ranges[k].tickLower <= t
                    /\ t < args.df_ranges[k].tickUpper})

\* C30: build_range_coverage returns one bin per multiple of tick_spacing from
\* the greatest multiple <= min tickLower to the least multiple >= max
\* tickUpper, in ascending order; each bin counts the ranges with
\* tickLower <= bin < tickUpper, so a range with tickUpper <= tickLower counts
\* nowhere; an empty input gives an empty table
C30_CoverageCountsRanges ==
    Returned("build_range_coverage") =>
        LET out == ret.out
            sp == args.tick_spacing
            n == Len(args.df_ranges)
        IN  IF n = 0 THEN out = <<>>
            ELSE LET tl_min == CHOOSE x \in {args.df_ranges[k].tickLower : k \in 1..n} :
                                  \A k \in 1..n : x <= args.df_ranges[k].tickLower
                     tu_max == CHOOSE x \in {args.df_ranges[k].tickUpper : k \in 1..n} :
                                  \A k \in 1..n : args.df_ranges[k].tickUpper <= x
                     multiples == {t \in (tl_min - sp + 1)..(tu_max + sp - 1) : t % sp = 0}
                 IN  /\ {out[i].tick_bin : i \in 1..Len(out)} = multiples
                     /\ Len(out) = Cardinality(multiples)
                     /\ \A i \in 1..(Len(out) - 1) : out[i].tick_bin < out[i + 1].tick_bin
                     /\ \A i \in 1..Len(out) :
                           out[i].coverage_count = Covering(out[i].tick_bin)

\* a table over negative and positive bins was built from a range that
\* starts at a negative tick off the bin grid and an inverted range, and one
\* of its bins is covered
C30_Witness ==
    /\ Returned("build_range_coverage")
    /\ args.tick_spacing > 1 /\ Len(args.df_ranges) = 2
    /\ args.df_ranges[1].tickLower < 0
    /\ args.df_ranges[1].tickLower % args.tick_spacing # 0
    /\ args.df_ranges[1].tickLower < args.df_ranges[1].tickUpper
    /\ args.df_ranges[2].tickUpper <= args.df_ranges[2].tickLower
    /\ \E i \in 1..Len(ret.out) : ret.out[i].tick_bin < 0 /\ ret.out[i].coverage_count = 1
    /\ \E i \in 1..Len(ret.out) : ret.out[i].tick_bin > 0

====
